---- MODULE Spec2Model ----
(***************************************************************************)
(* A model of reddit-votewatch's ingestion engine: the OAuth2 token        *)
(* lifecycle (reddit/api.go), the rate limiter held by the api handler,     *)
(* the cursor walk getNewestPosts, the discovery tick                       *)
(* TrackNewlyCreatedPosts and the batched lookup FetchPosts                 *)
(* (reddit/media.go).                                                       *)
(*                                                                         *)
(* The module holds several specifications over one set of variables; each  *)
(* one drives a part of the program and leaves the rest at its idle value:  *)
(*   SpecToken    NewApi, the refresh cycle, and the token an outbound call *)
(*                carries;                                                  *)
(*   SpecLimiter  the limiter field and its copies;                         *)
(*   SpecWalk     getNewestPosts called with any num and marker;            *)
(*   SpecTrack    TrackNewlyCreatedPosts over the configured subreddits;    *)
(*   SpecFetch    FetchPosts;                                               *)
(*   SpecPull     RecieveListings (database/database.go) on any set;        *)
(*   SpecSched    the scheduler's loop (scheduler/scheduler.go) with its    *)
(*                three tick handlers;                                      *)
(*   SpecValid    Fullname.IsValid on any string.                           *)
(***************************************************************************)
EXTENDS Integers, Sequences, FiniteSets, TLC

VARIABLES
    now,          \* time.Now().Unix()
    leniency,     \* TOKEN_REFRESH_LENIENCY after parsing, in 1/10000
    cacheFile,    \* the file at ACCESS_TOKEN_PATH
    cacheAccessToken, \* the field cacheAccessToken (env CACHE_ACCESS_TOKEN)
    client,       \* accessToken of NewApi's local `client`, which the refresh cycle points to
    handler,      \* accessToken of the redditApiHandler value NewApi returned to its caller
    napc,         \* position of NewApi
    cycle,        \* the goroutine startTokenRefreshCycle
    call,         \* one outbound call of a value-receiver method of the handler
    exchanges,    \* number of credential exchanges performed (fetchAccessToken)
    exchangeFailed, \* some credential exchange has failed
    refreshed,    \* some refresh cycle iteration has replaced client.accessToken
    rateLimiter,  \* permits in the handler's field rateLimiter (a rate.Limiter value)
    inv,          \* the running invocation of a value-receiver method and its copy of the limiter
    fired,        \* outbound list-page and lookup-chunk calls fired so far
    refilled,     \* permits the refill rate has produced so far
    invocations,  \* invocations started so far
    created,      \* per subreddit: how many posts were ever created there (the platform)
    gone,         \* per subreddit: the posts deleted or removed since (the platform)
    clock,        \* the platform's clock, which stamps the Date header of a response
    walk,         \* per subreddit: the running call of getNewestPosts
    walks,        \* calls of getNewestPosts made so far by a direct caller
    changes,      \* times the platform has changed a listing so far
    subreddits,   \* per subreddit: the field last of its entry in r.subreddits
    trackedListings, \* r.trackedListings: Fullname -> RedditContent
    track,        \* the running call of TrackNewlyCreatedPosts (its collecting loop)
    ticks,        \* calls of TrackNewlyCreatedPosts made so far by a direct caller
    fetch,        \* the running call of FetchPosts (its orchestrating goroutine)
    batch,        \* the goroutines fetchBatch of that call, by index
    fetches,      \* calls of FetchPosts made so far by a direct caller
    storage,      \* the storage service: the listings it streams and where it fails
    pull,         \* the running call of RecieveListings
    pulls,        \* calls of RecieveListings made so far
    sched,        \* the goroutine of scheduler.Start
    tickers,      \* the three tickers of Start: created, and a tick waiting in the channel
    fires,        \* ticks the tickers have sent so far
    dbCalls,      \* what SaveListings and RecordNewData were last called with
    validity      \* a call of Fullname.IsValid: its receiver and its result

tokVars == <<now, leniency, cacheFile, cacheAccessToken, client, handler, napc, cycle, call,
             exchanges, exchangeFailed, refreshed>>

limVars == <<rateLimiter, inv, fired, refilled, invocations>>

walkVars == <<created, gone, clock, walk, walks, changes>>

trackVars == <<subreddits, trackedListings, track, ticks>>

fetchVars == <<fetch, batch, fetches>>

pullVars == <<storage, pull, pulls>>

schedVars == <<sched, tickers, fires, dbCalls>>

vars == <<tokVars, limVars, walkVars, trackVars, fetchVars, pullVars, schedVars, validity>>

\* what the actions of one part leave alone
notTok == <<limVars, walkVars, trackVars, fetchVars, pullVars, schedVars, validity>>
notLim == <<tokVars, walkVars, trackVars, fetchVars, pullVars, schedVars, validity>>
notWalk == <<tokVars, limVars, fetchVars, pullVars, schedVars, validity>>
notFetch == <<tokVars, limVars, walkVars, trackVars, pullVars, schedVars, validity>>
notPull == <<tokVars, limVars, walkVars, fetchVars, schedVars, validity>>
notSched == <<tokVars, limVars, validity>>

----------------------------------------------------------------------------
(* Bounds of the model *)

MaxTime == 9000
MaxExchanges == 3
MaxRefills == 2
MaxInvocations == 3
MaxWalks == 1
MaxChanges == 2
MaxTicks == 2
MaxFetches == 1
MaxPulls == 1
MaxFires == 3
MaxShuffled == 5

----------------------------------------------------------------------------
(* Token records: accessTokenResponse *)

NoToken == [AccessToken |-> 0, ExpireLength |-> 0, InitializationTime |-> 0]

Token(id, life, init) ==
    [AccessToken |-> id, ExpireLength |-> life, InitializationTime |-> init]

\* expires_in values the authorization endpoint answers with
Lifetimes == {3600}

\* the spec's validity of a token record: now - obtained_at < lifetime
TokenValid(tok, t) == t - tok.InitializationTime < tok.ExpireLength

\* NewApi's test of a record pulled from the cache
CacheExpired(tok, t) == t - tok.InitializationTime > tok.ExpireLength

----------------------------------------------------------------------------
(* NewApi *)

\* Times at which the process may start, and what may lie in the cache then
StartTimes == {4000, 4600, 4700}
CachedTokens == {Token(0, 3600, 1000)}
AbsentFile == [state |-> "absent", token |-> NoToken]
UnreadableFile == [state |-> "unreadable", token |-> NoToken]
TokenFile(tok) == [state |-> "token", token |-> tok]
\* raw values of TOKEN_REFRESH_LENIENCY, in 1/10000
Leniencies == {0, 9000, 9900, 10000}

\* token: the record fetchAccessToken returned to the iteration; old: the record
\* the iteration's assignment is overwriting
IdleCycle == [pc |-> "off", regular |-> 0, wakeAt |-> 0, last |-> "none",
              token |-> NoToken, old |-> NoToken]
IdleCall == [pc |-> "idle", token |-> NoToken, valid |-> TRUE,
             afterRefresh |-> FALSE, newest |-> TRUE]

InitToken ==
    /\ now \in StartTimes
    /\ leniency \in Leniencies
    /\ cacheFile \in {AbsentFile, UnreadableFile} \cup {TokenFile(t) : t \in CachedTokens}
    /\ cacheAccessToken \in BOOLEAN
    /\ client = NoToken
    /\ handler = NoToken
    /\ napc = "resolve"
    /\ cycle = IdleCycle
    /\ call = IdleCall
    /\ exchanges = 0
    /\ exchangeFailed = FALSE
    /\ refreshed = FALSE

\* the token part at rest, for the specifications that do not drive it
IdleToken ==
    /\ now = 0
    /\ leniency = 9900
    /\ cacheFile = AbsentFile
    /\ cacheAccessToken = FALSE
    /\ client = NoToken
    /\ handler = NoToken
    /\ napc = "done"
    /\ cycle = IdleCycle
    /\ call = IdleCall
    /\ exchanges = 0
    /\ exchangeFailed = FALSE
    /\ refreshed = FALSE

\* pullFromCache followed by NewApi's expiry test: TRUE when the cached record is taken
CacheUsable(file, t) ==
    /\ file.state = "token"
    /\ ~CacheExpired(file.token, t)

\* cache(): the write to ACCESS_TOKEN_PATH either succeeds or not
CacheWrite(tok, ok) == IF ok THEN TokenFile(tok) ELSE cacheFile

\* NewApi up to the start of the refresh cycle: the token comes from the cache or
\* from a credential exchange; a failed exchange is fatal
NewApiResolve ==
    /\ napc = "resolve"
    /\ IF cacheAccessToken /\ CacheUsable(cacheFile, now)
       THEN /\ client' = cacheFile.token
            /\ napc' = "go"
            /\ UNCHANGED <<cacheFile, exchanges, exchangeFailed>>
       ELSE /\ exchanges' = exchanges + 1
            /\ \E ok \in BOOLEAN, life \in Lifetimes, written \in BOOLEAN :
                 IF ok
                 THEN /\ client' = Token(exchanges + 1, life, now)
                      /\ cacheFile' = IF cacheAccessToken
                                      THEN CacheWrite(client', written)
                                      ELSE cacheFile
                      /\ napc' = "go"
                      /\ UNCHANGED exchangeFailed
                 ELSE /\ napc' = "fatal"
                      /\ exchangeFailed' = TRUE
                      /\ UNCHANGED <<client, cacheFile>>
    /\ UNCHANGED <<now, leniency, cacheAccessToken, handler, cycle, call, refreshed>>
    /\ UNCHANGED notTok

\* go client.startTokenRefreshCycle()
NewApiGo ==
    /\ napc = "go"
    /\ napc' = "return"
    /\ cycle' = [cycle EXCEPT !.pc = "start"]
    /\ UNCHANGED <<now, leniency, cacheFile, cacheAccessToken, client, handler, call,
                   exchanges, exchangeFailed, refreshed>>
    /\ UNCHANGED notTok

\* what `return client` hands to the caller: a copy of the struct value
ReturnedHandler == client

\* return client
NewApiReturn ==
    /\ napc = "return"
    /\ napc' = "done"
    /\ handler' = ReturnedHandler
    /\ UNCHANGED <<now, leniency, cacheFile, cacheAccessToken, client, cycle, call,
                   exchanges, exchangeFailed, refreshed>>
    /\ UNCHANGED notTok

----------------------------------------------------------------------------
(* startTokenRefreshCycle and tokenRefreshCycleIteration *)

\* the clamp of startTokenRefreshCycle, in 1/10000
minimumLeniency == 1
ClampedLeniency(l) == IF l < minimumLeniency THEN minimumLeniency ELSE l

\* strconv.ParseFloat(s, 32): the float32 nearest to l/10000 (ties to even), as
\* [m, k] for the value m / 2^k with 2^23 <= m <= 2^24. q is the quotient so far
\* of l * 2^k by 10000 and r the rest.
RECURSIVE ParseFloat32(_, _, _)
ParseFloat32(q, r, k) ==
    IF q >= 2 ^ 23
    THEN [m |-> IF 2 * r > 10000 \/ (2 * r = 10000 /\ q % 2 = 1) THEN q + 1 ELSE q,
          k |-> k]
    ELSE ParseFloat32(2 * q + (IF 2 * r >= 10000 THEN 1 ELSE 0), (2 * r) % 10000, k + 1)

\* Naturals too large for a machine word, as sequences of bits, the least
\* significant first. TimesBits(b, s, c) is b * s + c.
RECURSIVE TimesBits(_, _, _)
TimesBits(b, s, c) ==
    IF b = <<>>
    THEN IF c = 0 THEN <<>> ELSE <<c % 2>> \o TimesBits(<<>>, s, c \div 2)
    ELSE LET t == Head(b) * s + c
         IN  <<t % 2>> \o TimesBits(Tail(b), s, t \div 2)

\* the natural a sequence of bits is
RECURSIVE ValueOfBits(_)
ValueOfBits(b) == IF b = <<>> THEN 0 ELSE Head(b) + 2 * ValueOfBits(Tail(b))

\* a + sign * b + c for sign 1 or -1 (the result is not negative)
RECURSIVE AddBits(_, _, _, _)
AddBits(a, b, sign, c) ==
    IF a = <<>> /\ b = <<>>
    THEN IF c = 1 THEN <<1>> ELSE <<>>
    ELSE LET t == (IF a = <<>> THEN 0 ELSE Head(a))
                  + sign * (IF b = <<>> THEN 0 ELSE Head(b)) + c
         IN  <<t % 2>> \o AddBits(IF a = <<>> THEN a ELSE Tail(a),
                                  IF b = <<>> THEN b ELSE Tail(b), sign,
                                  IF t < 0 THEN -1 ELSE t \div 2)

\* The result of a float64 operation whose exact value is x.b / 2^x.s: rounded
\* to 53 bits, a tie to the even one. (The values here are within the normal
\* range of a float64.)
Round64(x) ==
    LET ones == {i \in 1..Len(x.b) : x.b[i] = 1}
        top == IF ones = {} THEN 0 ELSE CHOOSE i \in ones : \A j \in ones : j <= i
        n == IF top > 53 THEN top - 53 ELSE 0
        q == SubSeq(x.b, n + 1, top)
        half == n >= 1 /\ x.b[n] = 1
        rest == \E i \in 1..(n - 1) : x.b[i] = 1
    IN  [b |-> IF half /\ (rest \/ q[1] = 1) THEN TimesBits(q, 1, 1) ELSE q,
         s |-> x.s - n]

\* 2^n / d rounded to the nearest natural (tie to even); i is the bit of 2^n being
\* divided, r the rest so far, q the quotient so far
RECURSIVE PowerOver(_, _, _, _, _)
PowerOver(n, d, i, r, q) ==
    IF i < 0
    THEN IF 2 * r > d \/ (2 * r = d /\ q # <<>> /\ q[1] = 1) THEN TimesBits(q, 1, 1) ELSE q
    ELSE LET t == 2 * r + (IF i = n THEN 1 ELSE 0)
             bit == t \div d
         IN  PowerOver(n, d, i - 1, t % d,
                       IF q = <<>> /\ bit = 0 THEN <<>> ELSE <<bit>> \o q)

\* the float64 constant 0.0001 of minimumLeniency, times 2^66: a float64 has 53
\* bits, and 2^52 <= 2^66 / 10000 < 2^53
MinimumLeniency64 == PowerOver(66, 10000, 66, 0, <<>>)

\* regular_delay, in 1/10000 s (cut at the fourth decimal), in float64 as the
\* code computes it: delay_sub := ExpireLength * (1.0 - leniency) and
\* regular_delay := ExpireLength - delay_sub. The leniency is the float32 that
\* ParseFloat gave, m / 2^k, or, when that is below minimumLeniency (0.0001
\* parses to a float32 just below it), the float64 constant 0.0001. A build may
\* round the product and the difference each by itself, or fuse the multiply
\* and the subtract into one rounding, which Go allows, also across the two
\* statements. A leniency above 1 makes delay_sub negative: `sign` is that of
\* 1.0 - leniency.
RegularDelay(life, l, fused) ==
    LET f == ParseFloat32(l \div 10000, l % 10000, 0)
        given == IF l <= minimumLeniency
                    THEN [b |-> MinimumLeniency64, s |-> 66]
                    ELSE [b |-> TimesBits(<<1>>, f.m, 0), s |-> f.k]
        one == [i \in 1..given.s |-> 0] \o <<1>>
        sign == IF l > 10000 THEN -1 ELSE 1
        rest == Round64([b |-> IF sign = 1 THEN AddBits(one, given.b, -1, 0)
                               ELSE AddBits(given.b, one, -1, 0),
                         s |-> given.s])
        Scaled(b, from) == [i \in 1..(rest.s - from) |-> 0] \o b
        product == [b |-> TimesBits(rest.b, life, 0), s |-> rest.s]
        delay_sub == IF fused THEN product ELSE Round64(product)
        regular_delay ==
            Round64([b |-> AddBits(Scaled(TimesBits(<<1>>, life, 0), 0),
                                   Scaled(delay_sub.b, delay_sub.s), -sign, 0),
                     s |-> rest.s])
        parts == TimesBits(regular_delay.b, 10000, 0)
    IN  ValueOfBits(SubSeq(parts, regular_delay.s + 1, Len(parts)))

\* seconds slept by one iteration: time.Duration(math.Min(regular_delay, remaining))
\* truncates toward zero, and time.Sleep returns at once for a duration <= 0
SleepSeconds(regular, tok, t) ==
    LET remaining == tok.InitializationTime + tok.ExpireLength - t
        whole == IF regular <= remaining * 10000 THEN regular \div 10000 ELSE remaining
    IN  IF whole < 0 THEN 0 ELSE whole

CycleStart ==
    /\ cycle.pc = "start"
    /\ \E fused \in BOOLEAN :
         cycle' = [cycle EXCEPT !.pc = "loop",
                                !.regular = RegularDelay(client.ExpireLength, leniency,
                                                         fused)]
    /\ UNCHANGED <<now, leniency, cacheFile, cacheAccessToken, client, handler, napc,
                   call, exchanges, exchangeFailed, refreshed>>
    /\ UNCHANGED notTok

IterSleep ==
    /\ cycle.pc = "loop"
    /\ exchanges < MaxExchanges
    /\ cycle' = [cycle EXCEPT !.pc = "sleep",
                              !.wakeAt = now + SleepSeconds(cycle.regular, client, now)]
    /\ UNCHANGED <<now, leniency, cacheFile, cacheAccessToken, client, handler, napc,
                   call, exchanges, exchangeFailed, refreshed>>
    /\ UNCHANGED notTok

\* the record the iteration's assignment r.accessToken = *token stores into
RefreshTarget(tok) == [client |-> tok, handler |-> handler]

Recovered_Exit(c, what) == [c EXCEPT !.pc = "dead", !.last = what]

\* the iteration after a panic: the deferred function recovers and prints it, the
\* iteration returns and the for loop of startTokenRefreshCycle goes on
Recovered(c, what) == [c EXCEPT !.pc = "loop", !.last = what]

\* r.accessToken = *token copies a struct of five fields with no lock held and no
\* atomic store: the record when the fields named by `first` have been stored and
\* the others not yet
WriteOrders == {"AccessToken", "InitializationTime"}
HalfWritten(old, new, first) ==
    IF first = "AccessToken"
    THEN [old EXCEPT !.AccessToken = new.AccessToken]
    ELSE [old EXCEPT !.ExpireLength = new.ExpireLength,
                     !.InitializationTime = new.InitializationTime]

\* the iteration after its sleep, up to the middle of its assignment: a failed
\* exchange panics and is recovered, and the next iteration follows
IterRefresh ==
    /\ cycle.pc = "sleep"
    /\ now >= cycle.wakeAt
    /\ exchanges' = exchanges + 1
    /\ \E ok \in BOOLEAN, life \in Lifetimes, first \in WriteOrders :
         IF ok
         THEN LET tok == Token(exchanges + 1, life, now)
                  half == HalfWritten(client, tok, first) IN
              /\ cycle' = [cycle EXCEPT !.pc = "assign", !.token = tok, !.old = client]
              /\ client' = RefreshTarget(half).client
              /\ handler' = RefreshTarget(half).handler
              /\ UNCHANGED exchangeFailed
         ELSE /\ cycle' = Recovered(cycle, "exchange")
              /\ exchangeFailed' = TRUE
              /\ UNCHANGED <<client, handler>>
    /\ UNCHANGED <<now, leniency, cacheFile, cacheAccessToken, napc, call, refreshed>>
    /\ UNCHANGED notTok

\* the rest of the assignment, and the write of the cache: a failed write panics
\* and is recovered; the next iteration follows in either case
IterAssign ==
    /\ cycle.pc = "assign"
    /\ \E written \in BOOLEAN :
         LET tok == cycle.token
             end == [cycle EXCEPT !.token = NoToken, !.old = NoToken] IN
         /\ cycle' = IF cacheAccessToken /\ ~written
                     THEN Recovered(end, "cache")
                     ELSE [end EXCEPT !.pc = "loop", !.last = "ok"]
         /\ client' = RefreshTarget(tok).client
         /\ handler' = RefreshTarget(tok).handler
         /\ cacheFile' = IF cacheAccessToken THEN CacheWrite(tok, written)
                         ELSE cacheFile
         /\ refreshed' = TRUE
    /\ UNCHANGED <<now, leniency, cacheAccessToken, napc, call, exchanges, exchangeFailed>>
    /\ UNCHANGED notTok

----------------------------------------------------------------------------
(* An outbound call: getNewestPosts.callApi or FetchPosts.fetchBatch *)

\* the method has a value receiver: it works on a copy of the handler taken when
\* it is called, and populateStandardHeaders reads the token of that copy
CallStart ==
    /\ napc = "done"
    /\ call.pc = "idle"
    /\ call' = [pc |-> "wait", token |-> handler, valid |-> TRUE,
                afterRefresh |-> refreshed, newest |-> (handler = client)]
    /\ UNCHANGED <<now, leniency, cacheFile, cacheAccessToken, client, handler, napc,
                   cycle, exchanges, exchangeFailed, refreshed>>
    /\ UNCHANGED notTok

\* rateLimiter.Wait has returned: http.DefaultClient.Do(request)
CallFire ==
    /\ call.pc = "wait"
    /\ call' = [call EXCEPT !.pc = "fired", !.valid = TokenValid(call.token, now)]
    /\ UNCHANGED <<now, leniency, cacheFile, cacheAccessToken, client, handler, napc,
                   cycle, exchanges, exchangeFailed, refreshed>>
    /\ UNCHANGED notTok

CallDone ==
    /\ call.pc = "fired"
    /\ call' = IdleCall
    /\ UNCHANGED <<now, leniency, cacheFile, cacheAccessToken, client, handler, napc,
                   cycle, exchanges, exchangeFailed, refreshed>>
    /\ UNCHANGED notTok

\* Time passes; a sleeping cycle wakes when its delay is over
TimeSteps == {1800}
Advance ==
    /\ \E d \in TimeSteps \cup (IF cycle.pc = "sleep" /\ cycle.wakeAt > now
                                THEN {cycle.wakeAt - now} ELSE {}) :
         /\ now + d <= MaxTime
         /\ cycle.pc = "sleep" => now + d <= cycle.wakeAt
         /\ now' = now + d
    /\ ~(cycle.pc = "sleep" /\ now >= cycle.wakeAt)
    /\ cycle.pc # "assign"
    /\ napc \in {"done", "fatal"}
    /\ UNCHANGED <<leniency, cacheFile, cacheAccessToken, client, handler, napc, cycle,
                   call, exchanges, exchangeFailed, refreshed>>
    /\ UNCHANGED notTok

NextToken ==
    \/ NewApiResolve \/ NewApiGo \/ NewApiReturn
    \/ CycleStart \/ IterSleep \/ IterRefresh \/ IterAssign
    \/ CallStart \/ CallFire \/ CallDone
    \/ Advance

----------------------------------------------------------------------------
(* The rate limiter: rate.NewLimiter(rate.Every(time.Minute), 60), held by value *)

burst == 60
limit == 100

\* int(math.Ceil(float64(n) / limit))
CeilDiv(n, d) == (n + d - 1) \div d

IdleInv == [pc |-> "idle", lim |-> 0, reserve |-> 0, left |-> 0]

IdleLimiter ==
    /\ rateLimiter = burst
    /\ inv = IdleInv
    /\ fired = 0
    /\ refilled = 0
    /\ invocations = 0

\* the limiter a value-receiver method (getNewestPosts, FetchPosts) works on: the
\* receiver r is a copy of the handler, and r.rateLimiter a copy of its limiter
ReceiverLimiter == [copy |-> TRUE, permits |-> rateLimiter]

\* the handler's own limiter after the invocation's copy went from `before` to `after`
AfterUse(before, after) == IF ReceiverLimiter.copy THEN rateLimiter ELSE after

\* numbers of ids FetchPosts is invoked with
FetchSizes == {250, 3000, 6100}

\* getNewestPosts(sub.name, TEMP, last) from a task of TrackNewlyCreatedPosts: one
\* page call
InvokeWalk ==
    /\ inv.pc = "idle"
    /\ invocations < MaxInvocations
    /\ invocations' = invocations + 1
    /\ inv' = [pc |-> "calls", lim |-> ReceiverLimiter.permits, reserve |-> 0, left |-> 1]
    /\ UNCHANGED <<rateLimiter, fired, refilled>>
    /\ UNCHANGED notLim

\* FetchPosts(IDs) up to its WaitN
InvokeFetch ==
    /\ inv.pc = "idle"
    /\ invocations < MaxInvocations
    /\ invocations' = invocations + 1
    /\ \E n \in FetchSizes :
         inv' = [pc |-> "reserve", lim |-> ReceiverLimiter.permits,
                 reserve |-> CeilDiv(n, limit), left |-> CeilDiv(n, limit)]
    /\ UNCHANGED <<rateLimiter, fired, refilled>>
    /\ UNCHANGED notLim

\* r.rateLimiter.WaitN(ctx, totalCalls): an n above the burst is refused at once
\* (the error is dropped); otherwise the caller is held until n permits are there
FetchReserve ==
    /\ inv.pc = "reserve"
    /\ IF inv.reserve > burst
       THEN /\ inv' = [inv EXCEPT !.pc = "calls"]
            /\ UNCHANGED rateLimiter
       ELSE /\ inv.lim >= inv.reserve
            /\ inv' = [inv EXCEPT !.pc = "calls", !.lim = inv.lim - inv.reserve]
            /\ rateLimiter' = AfterUse(inv.lim, inv.lim - inv.reserve)
    /\ UNCHANGED <<fired, refilled, invocations>>
    /\ UNCHANGED notLim

\* r.rateLimiter.Wait(ctx) followed by http.DefaultClient.Do(request)
FireCall ==
    /\ inv.pc = "calls"
    /\ inv.left > 0
    /\ inv.lim >= 1
    /\ inv' = [inv EXCEPT !.lim = inv.lim - 1, !.left = inv.left - 1]
    /\ rateLimiter' = AfterUse(inv.lim, inv.lim - 1)
    /\ fired' = fired + 1
    /\ UNCHANGED <<refilled, invocations>>
    /\ UNCHANGED notLim

InvReturn ==
    /\ inv.pc = "calls"
    /\ inv.left = 0
    /\ inv' = IdleInv
    /\ UNCHANGED <<rateLimiter, fired, refilled, invocations>>
    /\ UNCHANGED notLim

\* a minute passes: every limiter value gains one permit, up to its burst
Min(a, b) == IF a <= b THEN a ELSE b
Refill ==
    /\ refilled < MaxRefills
    /\ refilled' = refilled + 1
    /\ rateLimiter' = Min(burst, rateLimiter + 1)
    /\ inv' = IF inv.pc = "idle" THEN inv ELSE [inv EXCEPT !.lim = Min(burst, inv.lim + 1)]
    /\ UNCHANGED <<fired, invocations>>
    /\ UNCHANGED notLim

NextLimiter ==
    \/ InvokeWalk \/ InvokeFetch \/ FetchReserve \/ FireCall \/ InvReturn \/ Refill

----------------------------------------------------------------------------
(* The platform's listing /r/<subreddit>/new *)

Feeds == {"a", "b"}

\* A Fullname: the i-th post ever created in subreddit f. NoName is the empty string.
Name(f, i) == [sub |-> f, n |-> i]
NoName == Name("", 0)

\* x was created before y (y # NoName)
Older(x, y) == x.sub = y.sub /\ x.n < y.n

\* the listing of subreddit f, newest first: every post created and not gone
Listing(f) ==
    LET all == [i \in 1..created[f] |-> Name(f, created[f] + 1 - i)]
        Present(x) == x.n \notin gone[f]
    IN  SelectSeq(all, Present)

\* GET /r/f/new.json?limit=count[&after=after]: the posts that follow `after` in the
\* listing (from the top when after is empty), at most count of them, and the
\* continuation cursor, which is empty when nothing follows the page
PageResponse(f, after, count) ==
    LET L == Listing(f)
        Newer(x) == after # NoName /\ x.n >= after.n
        skip == Len(SelectSeq(L, Newer))
        last == Min(skip + count, Len(L))
        children == SubSeq(L, skip + 1, last)
    IN  [children |-> children,
         after |-> IF last < Len(L) /\ last > skip THEN L[last] ELSE NoName]

\* a RedditContent as the walk stores it: post.Data with QueryDate = timeSent
Content(name, timeSent) == [id |-> name, QueryDate |-> timeSent]

FullId(c) == c.id

\* Fullnames as text
Digits == <<"0", "1", "2", "3", "4", "5", "6", "7", "8", "9">>
DigitChars == {Digits[k] : k \in DOMAIN Digits}
LowerChars == {"a", "b", "c", "d", "e", "f", "g", "h", "i", "j", "k", "l", "m", "n",
               "o", "p", "q", "r", "s", "t", "u", "v", "w", "x", "y", "z"}

\* n in decimal, five digits
Decimal5(n) == [k \in 1..5 |-> Digits[((n \div (10 ^ (5 - k))) % 10) + 1]]

\* texts of Fullnames that are not the name of a post of a watched subreddit:
\* an id of three characters, one of seven, one that holds a control character,
\* the FullId of a listing without kind, and those of a listing without id, its
\* kind t3 or empty
OddTexts == << <<"t", "3", "_", "a", "b", "c">>,
               <<"t", "3", "_", "1", "a", "b", "c", "d", "e", "2">>,
               <<"t", "3", "_", "a", "b", "\n", "1", "2", "3">>,
               <<"_", "a", "0", "0", "0", "0", "1">>,
               <<"t", "3", "_">>,
               <<"_">> >>

\* the string a Fullname is: kind t3, and an id of six characters for the posts of
\* the watched subreddits
Text(x) ==
    IF x.sub = ""
    THEN IF x.n = 0 THEN <<>> ELSE OddTexts[x.n]
    ELSE <<"t", "3", "_", x.sub>> \o Decimal5(x.n)

\* the process has ended: a goroutine panicked in RedditContent.UnmarshalJSON
\* (created_utc that is not a number) and nothing recovers it
Exited ==
    \/ \E f \in Feeds : walk[f].pc = "panic"
    \/ \E c \in DOMAIN batch : batch[c].pc = "panic"

----------------------------------------------------------------------------
(* getNewestPosts *)

IdleWalk == [pc |-> "idle", num |-> 0, last |-> NoName, trackPosts |-> FALSE,
             results |-> <<>>, totalCalls |-> 0, listingsNeeded |-> 0,
             after |-> NoName, currentCall |-> 0, reachedLast |-> FALSE,
             err |-> FALSE, reqs |-> <<>>, snap |-> <<>>]

\* the state of getNewestPosts(f, num, last) before its loop; num <= 0 is an error
WalkEntry(num, last) ==
    IF num <= 0
    THEN [IdleWalk EXCEPT !.pc = "done", !.num = num, !.last = last, !.err = TRUE]
    ELSE [IdleWalk EXCEPT !.pc = "loop", !.num = num, !.last = last,
                          !.totalCalls = CeilDiv(num, limit),
                          !.listingsNeeded = num]

\* the listings of one page the loop stores: all of them, or with a marker those
\* before the first one whose FullId equals it
UpToLast(children, checkLast, last) ==
    LET hits == {i \in 1..Len(children) : checkLast /\ children[i] = last}
        stop == IF hits = {} THEN Len(children) + 1
                ELSE CHOOSE i \in hits : \A j \in hits : i <= j
    IN  SubSeq(children, 1, stop - 1)

\* one iteration of the loop of getNewestPosts on the answer `response`
WalkIteration(w, response, timeSent) ==
    LET checkLast == w.last # NoName
        kept == UpToLast(response.children, checkLast, w.last)
        reachedLast == Len(kept) < Len(response.children)
        more == w.currentCall + 1 < w.totalCalls /\ ~reachedLast
    IN  IF Len(response.children) = 0
        THEN [w EXCEPT !.pc = "done"]
        ELSE [w EXCEPT !.pc = IF more THEN "loop" ELSE "done",
                       !.after = response.after,
                       !.results = w.results \o [i \in 1..Len(kept) |->
                                                   Content(kept[i], timeSent)],
                       !.reachedLast = reachedLast,
                       !.listingsNeeded = w.listingsNeeded - limit,
                       !.currentCall = w.currentCall + 1]

WalkRequest_Full(w) ==
    [limit |-> limit,
     after |-> IF w.currentCall > 0 THEN w.after ELSE NoName]

\* the url of the iteration's request: limit= and, past the first call, after=
WalkRequest(w) ==
    [limit |-> Min(w.listingsNeeded, limit),
     after |-> IF w.currentCall > 0 THEN w.after ELSE NoName]

\* one pass through the loop body: callApi and the processing of its answer.
\* callApi ends with the listing; with an error (transport, status, date,
\* json.Unmarshal), which makes getNewestPosts return (nil, error); or in the
\* panic of RedditContent.UnmarshalJSON on a child whose created_utc is not a
\* number
WalkPage(f) ==
    /\ walk[f].pc = "loop"
    /\ ~Exited
    /\ LET w == walk[f]
           req == WalkRequest(w)
           sent == [w EXCEPT !.reqs = Append(w.reqs, req), !.snap = Listing(f)]
       IN  \E outcome \in {"ok", "error", "panic"} :
             walk' = [walk EXCEPT ![f] =
                 CASE outcome = "ok" ->
                        WalkIteration(sent, PageResponse(f, req.after, req.limit), clock)
                   [] outcome = "error" ->
                        [sent EXCEPT !.pc = "done", !.err = TRUE, !.results = <<>>]
                   [] outcome = "panic" ->
                        [sent EXCEPT !.pc = "panic"]]
    /\ UNCHANGED <<created, gone, clock, walks, changes, trackVars>>
    /\ UNCHANGED notWalk

\* values of num and of the marker a caller passes
Nums == {0, 1, 10, 101, 250}
Markers(f) == {NoName} \cup {Name(f, i) : i \in {1, 2, 3, 120, 150} \cap 1..created[f]}

\* a caller calls getNewestPosts(f, num, last)
WalkCall(f) ==
    /\ walk[f].pc = "idle"
    /\ ~Exited
    /\ walks < MaxWalks
    /\ walks' = walks + 1
    /\ \E num \in Nums, last \in Markers(f) :
         walk' = [walk EXCEPT ![f] = WalkEntry(num, last)]
    /\ UNCHANGED <<created, gone, clock, changes, trackVars>>
    /\ UNCHANGED notWalk

\* the caller has taken the returned slice
WalkReturn(f) ==
    /\ walk[f].pc = "done"
    /\ ~Exited
    /\ walk' = [walk EXCEPT ![f] = IdleWalk]
    /\ UNCHANGED <<created, gone, clock, walks, changes, trackVars>>
    /\ UNCHANGED notWalk

\* the platform: k posts are created in subreddit f. (Only WalkPage reads the
\* listing, in one step, so a change while TrackNewlyCreatedPosts runs is the
\* same as one before or after it.) Under the scheduler the posts there are,
\* with the keys of the Tracked Set, stay within MaxShuffled, which bounds the
\* keys a refresh tick ranges over.
PostBursts == {1, 11}
Post(f) ==
    /\ track.pc # "collect"
    /\ sched.pc \in {"off", "select"}
    /\ changes < MaxChanges
    /\ changes' = changes + 1
    /\ \E k \in PostBursts :
         /\ created' = [created EXCEPT ![f] = created[f] + k]
         /\ sched.pc # "off" =>
               Cardinality(DOMAIN trackedListings
                           \cup UNION {{Name(g, i) : i \in 1..created'[g]} : g \in Feeds})
                 <= MaxShuffled
    /\ UNCHANGED <<gone, clock, walk, walks, trackVars>>
    /\ UNCHANGED notWalk

\* the platform: a post is deleted or removed and leaves the listing
Delete(f) ==
    /\ track.pc # "collect"
    /\ sched.pc \in {"off", "select"}
    /\ changes < MaxChanges
    /\ changes' = changes + 1
    /\ \E i \in {created[f], walk[f].last.n, subreddits[f].n} :
         /\ i \in 1..created[f]
         /\ i \notin gone[f]
         /\ gone' = [gone EXCEPT ![f] = gone[f] \cup {i}]
    /\ UNCHANGED <<created, clock, walk, walks, trackVars>>
    /\ UNCHANGED notWalk

----------------------------------------------------------------------------
(* TrackNewlyCreatedPosts *)

TEMP == 10

IdleTrack == [pc |-> "idle", i |-> 0, postsTracked |-> 0,
              startLast |-> [f \in Feeds |-> NoName], before |-> <<>>]

IdleTrackPart ==
    /\ subreddits = [f \in Feeds |-> NoName]
    /\ trackedListings = <<>>
    /\ track = IdleTrack
    /\ ticks = 0

MapSet_Only(m, k, v) == [x \in {k} |-> v]

\* m[k] = v on a Go map
MapSet(m, k, v) == [x \in DOMAIN m \cup {k} |-> IF x = k THEN v ELSE m[x]]

\* for _, post := range results.result { r.trackedListings[post.FullId()] = post }
RECURSIVE TrackAll(_, _)
TrackAll(m, result) ==
    IF result = <<>> THEN m
    ELSE TrackAll(MapSet(m, FullId(Head(result)), Head(result)), Tail(result))

\* TrackNewlyCreatedPosts at its collecting loop, and its tasks just started
TrackEntry == [pc |-> "collect", i |-> 0, postsTracked |-> 0,
               startLast |-> subreddits, before |-> trackedListings]
Spawned == [f \in Feeds |-> [IdleWalk EXCEPT !.pc = "spawned"]]

\* TrackNewlyCreatedPosts starts one goroutine per subreddit
TrackStart ==
    /\ track.pc \in {"idle", "returned"}
    /\ ~Exited
    /\ sched.pc = "off"
    /\ ticks < MaxTicks
    /\ ticks' = ticks + 1
    /\ track' = TrackEntry
    /\ walk' = Spawned
    /\ UNCHANGED <<created, gone, clock, walks, changes, subreddits, trackedListings>>
    /\ UNCHANGED notWalk

\* the task of subreddit f up to its call of getNewestPosts(sub.name, TEMP, last)
TaskBegin(f) ==
    /\ walk[f].pc = "spawned"
    /\ ~Exited
    /\ walk' = [walk EXCEPT ![f] =
                   [WalkEntry(TEMP, subreddits[f]) EXCEPT
                        !.trackPosts = subreddits[f] # NoName]]
    /\ UNCHANGED <<created, gone, clock, walks, changes, trackVars>>
    /\ UNCHANGED notWalk

NewLast_Oldest(last, result) ==
    IF Len(result) > 0 THEN FullId(result[Len(result)]) ELSE last

\* sub.last after the task's getNewestPosts returned `result` without error
NewLast(last, result) == IF Len(result) > 0 THEN FullId(result[1]) ELSE last

\* sub.last after the task's getNewestPosts returned an error: the task returns
\* before it assigns it
CursorOnError(last) == last

\* the task after getNewestPosts returned: on an error it reports
\* taskResult{nil, false, err}; otherwise it moves sub.last to the newest post
\* received and reports the posts
TaskFinish(f) ==
    /\ walk[f].pc = "done"
    /\ ~Exited
    /\ IF walk[f].err
       THEN /\ walk' = [walk EXCEPT ![f].pc = "send", ![f].results = <<>>,
                                    ![f].trackPosts = FALSE]
            /\ subreddits' = [subreddits EXCEPT ![f] = CursorOnError(subreddits[f])]
       ELSE /\ walk' = [walk EXCEPT ![f].pc = "send"]
            /\ subreddits' = [subreddits EXCEPT
                                 ![f] = NewLast(subreddits[f], walk[f].results)]
    /\ UNCHANGED <<created, gone, clock, walks, changes, trackedListings, track, ticks>>
    /\ UNCHANGED notWalk

Tracked_Always(result, trackPosts) == result

\* the posts of one taskResult that the collecting loop tracks
Tracked(result, trackPosts) == IF trackPosts THEN result ELSE <<>>

\* results := <-out and the body of the collecting loop
Collect(f) ==
    /\ track.pc = "collect"
    /\ ~Exited
    /\ walk[f].pc = "send"
    /\ LET new == Tracked(walk[f].results, walk[f].trackPosts) IN
         /\ trackedListings' = TrackAll(trackedListings, new)
         /\ track' = [track EXCEPT !.i = track.i + 1,
                                   !.postsTracked = track.postsTracked + Len(new)]
    /\ walk' = [walk EXCEPT ![f] = IdleWalk]
    /\ UNCHANGED <<created, gone, clock, walks, changes, subreddits, ticks>>
    /\ UNCHANGED notWalk

AllReported_First(i) == i >= 1

\* for i := 0; i < len(r.subreddits); i += 1: one receive for every task started
AllReported(i) == i = Cardinality(Feeds)

\* return postsTracked
TrackReturn ==
    /\ track.pc = "collect"
    /\ ~Exited
    /\ AllReported(track.i)
    /\ track' = [track EXCEPT !.pc = "returned"]
    /\ UNCHANGED <<subreddits, trackedListings, ticks>>
    /\ UNCHANGED walkVars
    /\ UNCHANGED notWalk

\* posts in each subreddit when the process starts
StartSizes == {0, 2}

\* the Tracked Set when the first tick fires: empty, or holding a post that the
\* startup pull loaded from the storage
TrackedAtStart == {<<>>, MapSet(<<>>, Name("a", 1), Content(Name("a", 1), 0))}

InitTrack ==
    /\ created \in [Feeds -> StartSizes]
    /\ gone = [f \in Feeds |-> {}]
    /\ clock = 0
    /\ walk = [f \in Feeds |-> IdleWalk]
    /\ walks = 0
    /\ changes = 0
    /\ subreddits = [f \in Feeds |-> NoName]
    /\ trackedListings \in TrackedAtStart
    /\ \A x \in DOMAIN trackedListings : x.n <= created[x.sub]
    /\ track = IdleTrack
    /\ ticks = 0

NextTrack ==
    \/ TrackStart
    \/ TrackReturn
    \/ \E f \in Feeds :
         \/ TaskBegin(f)
         \/ WalkPage(f)
         \/ TaskFinish(f)
         \/ Collect(f)
         \/ Post(f)
         \/ Delete(f)

----------------------------------------------------------------------------
(* FetchPosts *)

IdleFetch == [pc |-> "idle", IDs |-> <<>>, totalCalls |-> 0, batchIDs |-> <<>>,
              lim |-> 0, contentMap |-> <<>>, i |-> 0, lookups |-> 0, err |-> FALSE]

IdleFetchPart ==
    /\ fetch = IdleFetch
    /\ batch = <<>>
    /\ fetches = 0

\* batchIDs: the ranges of IDs of the calls, by call
BatchIDs(IDs) ==
    LET numListings == Len(IDs)
        totalCalls == CeilDiv(numListings, limit)
    IN  [c \in 1..totalCalls |->
            LET currentIndex == (c - 1) * limit
            IN  IF currentIndex + limit >= numListings
                THEN SubSeq(IDs, currentIndex + 1, numListings)
                ELSE SubSeq(IDs, currentIndex + 1, currentIndex + limit)]

\* id lists FetchPosts is called with: the first n posts of subreddit "a", and
\* lists with an id that holds a control character
FetchLens == {0, 1, 100, 101, 200, 250}
IdList(n) == [k \in 1..n |-> Name("a", k)]
FetchLists ==
    {IdList(n) : n \in FetchLens}
    \cup {<<Name("", 3)>>, [k \in 1..101 |-> IF k = 1 THEN Name("", 3) ELSE Name("a", k)]}

\* FetchPosts(IDs) at its WaitN
FetchEntry(IDs) ==
    [IdleFetch EXCEPT !.pc = "reserve", !.IDs = IDs,
                      !.batchIDs = BatchIDs(IDs),
                      !.totalCalls = Len(BatchIDs(IDs)),
                      !.lim = ReceiverLimiter.permits]

\* FetchPosts(IDs) up to r.rateLimiter.WaitN: the receiver is a copy of the handler
FetchCall ==
    /\ fetch.pc = "idle"
    /\ ~Exited
    /\ fetches < MaxFetches
    /\ fetches' = fetches + 1
    /\ \E IDs \in FetchLists : fetch' = FetchEntry(IDs)
    /\ batch' = <<>>
    /\ UNCHANGED notFetch

\* r.rateLimiter.WaitN(ctx, totalCalls), then one goroutine per batch
FetchLaunch ==
    /\ fetch.pc = "reserve"
    /\ ~Exited
    /\ fetch.totalCalls > burst \/ fetch.lim >= fetch.totalCalls
    /\ fetch' = [fetch EXCEPT !.pc = "collect",
                              !.lim = IF fetch.totalCalls > burst THEN fetch.lim
                                      ELSE fetch.lim - fetch.totalCalls]
    /\ batch' = [c \in 1..fetch.totalCalls |->
                   [pc |-> "go", ok |-> FALSE, content |-> <<>>, timeSent |-> 0,
                    malformed |-> FALSE]]
    /\ UNCHANGED fetches
    /\ UNCHANGED notFetch

\* how a lookup call can end before its body is used
CallErrors == {"transport", "status", "date"}

\* a post outside every id list of the model
Stray == Name("b", 1)

\* the listings of the answers GET /api/info/?id=<in> may carry: the posts of
\* `in` the platform still has, nothing, or listings that were not asked for
Exists(x) == x.sub \in Feeds /\ x.n \in 1..created[x.sub] /\ x.n \notin gone[x.sub]
LookupAnswers(in) ==
    {SelectSeq(in, Exists), <<>>, SelectSeq(in, Exists) \o <<Stray>>}

\* what is decoded of a listing with a child whose data is not a JSON object:
\* UnmarshalJSON returns the error of its json.Unmarshal, and the decoding stops
\* there, with the children before that child, and the child itself, in the
\* list. The child's Id is empty, and its kind is there (t3) when the body has
\* it before the data. The child is the first, the second or one more after
\* those of `listing`.
CutAt(listing) ==
    {SubSeq(listing, 1, k) \o <<e>> : k \in {0, 1, Len(listing)} \cap 0..Len(listing),
                                      e \in {Name("", 5), Name("", 6)}}

\* the bodies of a 200 answer, by what json.Unmarshal makes of them: the JSON of
\* a listing ("ok"); text that is not JSON ("syntax"); JSON with a value of the
\* wrong type, outside the children or in a child's kind, whose ContentType
\* then stays empty ("type"); JSON with a child whose data is not an object
\* ("data"); and JSON with a child whose created_utc is not a number ("panic")
LookupBodies(in) ==
    {[parse |-> "ok", children |-> a] : a \in LookupAnswers(in)}
    \cup {[parse |-> "syntax", children |-> <<>>]}
    \cup {[parse |-> "type", children |-> a] : a \in {SelectSeq(in, Exists), <<Name("", 4)>>}}
    \cup {[parse |-> "data", children |-> a] : a \in CutAt(SelectSeq(in, Exists))}
    \cup {[parse |-> "panic", children |-> <<>>]}

\* json.Unmarshal(responseBody, &responseBodyJson), its error dropped: text that
\* is not JSON leaves Data.Children empty; after a type error, or the error of
\* a child's UnmarshalJSON, the children that were decoded are there
Unmarshal(body) == IF body.parse = "syntax" THEN <<>> ELSE body.children

\* http.NewRequest refuses a URL that holds a control character
UrlOk(in) ==
    \A k \in DOMAIN in : \A j \in DOMAIN Text(in[k]) : Text(in[k])[j] # "\n"

\* fetchBatch up to its send or its end: http.NewRequest, whose error is sent
\* before any permit is taken; then Wait on the limiter, the call and the parsing
\* of its answer
BatchRun(c) ==
    /\ fetch.pc = "collect"
    /\ ~Exited
    /\ c \in DOMAIN batch
    /\ batch[c].pc = "go"
    /\ IF ~UrlOk(fetch.batchIDs[c])
       THEN /\ UNCHANGED fetch
            /\ batch' = [batch EXCEPT ![c] = [pc |-> "sendErr", ok |-> FALSE,
                                              content |-> <<>>, timeSent |-> 0,
                                              malformed |-> FALSE]]
       ELSE /\ fetch.lim >= 1
            /\ fetch' = [fetch EXCEPT !.lim = fetch.lim - 1,
                                      !.lookups = fetch.lookups + 1]
            /\ \/ \E e \in CallErrors :
                    batch' = [batch EXCEPT ![c] = [pc |-> "sendErr", ok |-> FALSE,
                                                  content |-> <<>>, timeSent |-> clock,
                                                  malformed |-> FALSE]]
               \/ \E body \in LookupBodies(fetch.batchIDs[c]) :
                    batch' = [batch EXCEPT ![c] =
                        IF body.parse = "panic"
                        THEN [pc |-> "panic", ok |-> FALSE, content |-> <<>>,
                              timeSent |-> clock, malformed |-> TRUE]
                        ELSE [pc |-> "sendOut", ok |-> TRUE,
                              content |-> Unmarshal(body), timeSent |-> clock,
                              malformed |-> body.parse # "ok"]]
    /\ UNCHANGED fetches
    /\ UNCHANGED notFetch

\* for _, content := range result.content { contentMap[content.FullId()] = content }
MergeAll(m, content, timeSent) ==
    LET new == {content[k] : k \in DOMAIN content}
    IN  [x \in DOMAIN m \cup new |->
            IF x \in new THEN Content(x, timeSent) ELSE m[x]]

\* case result := <-out
ReceiveOut(c) ==
    /\ fetch.pc = "collect"
    /\ ~Exited
    /\ fetch.i < fetch.totalCalls
    /\ c \in DOMAIN batch
    /\ batch[c].pc = "sendOut"
    /\ fetch' = [fetch EXCEPT !.i = fetch.i + 1,
                              !.contentMap = MergeAll(fetch.contentMap, batch[c].content,
                                                      batch[c].timeSent)]
    /\ batch' = [batch EXCEPT ![c].pc = "end"]
    /\ UNCHANGED fetches
    /\ UNCHANGED notFetch

\* the orchestrator after it received an error: it prints it and goes on
OnBatchError(f) == [f EXCEPT !.i = f.i + 1]

\* case err := <-errChan
ReceiveErr(c) ==
    /\ fetch.pc = "collect"
    /\ ~Exited
    /\ fetch.i < fetch.totalCalls
    /\ c \in DOMAIN batch
    /\ batch[c].pc = "sendErr"
    /\ fetch' = OnBatchError(fetch)
    /\ batch' = [batch EXCEPT ![c].pc = "end"]
    /\ UNCHANGED fetches
    /\ UNCHANGED notFetch

\* the check for ids that returned nothing (warnings only) and return &contentMap, nil
MissingIDs_Error(f) ==
    IF \E k \in DOMAIN f.IDs : f.IDs[k] \notin DOMAIN f.contentMap
    THEN [f EXCEPT !.pc = "returned", !.err = TRUE, !.contentMap = <<>>]
    ELSE [f EXCEPT !.pc = "returned"]

\* the loop over IDs after the receives: an ID that is no key of contentMap is
\* printed as a warning; then return &contentMap, nil
MissingIDs(f) == [f EXCEPT !.pc = "returned"]

FetchReturn ==
    /\ fetch.pc = "collect"
    /\ ~Exited
    /\ fetch.i = fetch.totalCalls
    /\ fetch' = MissingIDs(fetch)
    /\ UNCHANGED <<batch, fetches>>
    /\ UNCHANGED notFetch

\* the caller has taken the result
FetchDone ==
    /\ fetch.pc = "returned"
    /\ ~Exited
    /\ fetch' = IdleFetch
    /\ batch' = <<>>
    /\ UNCHANGED fetches
    /\ UNCHANGED notFetch

\* the platform when FetchPosts is called: 260 posts in "a", some of them gone
GoneSets == {{}, {1}, {150}}
InitFetch ==
    /\ created = [f \in Feeds |-> IF f = "a" THEN 260 ELSE 0]
    /\ gone \in {[f \in Feeds |-> IF f = "a" THEN g ELSE {}] : g \in GoneSets}
    /\ clock = 0
    /\ walk = [f \in Feeds |-> IdleWalk]
    /\ walks = 0
    /\ changes = 0
    /\ IdleFetchPart

NextFetch ==
    \/ FetchCall
    \/ FetchLaunch
    \/ FetchReturn
    \/ FetchDone
    \/ \E c \in DOMAIN batch : BatchRun(c)
    \/ \E c \in DOMAIN batch : ReceiveOut(c)
    \/ \E c \in DOMAIN batch : ReceiveErr(c)

----------------------------------------------------------------------------
(* Fullnames as text, and Fullname.IsValid *)

\* the Fullnames the model has a value for
Fullnames ==
    {Name(f, i) : f \in Feeds, i \in 1..300} \cup {Name("", k) : k \in 0..Len(OddTexts)}

\* the Fullname with text s
Named(s) == CHOOSE x \in Fullnames : Text(x) = s

\* the pattern between its anchors: t, [1-6], _, and [a-z0-9] six times
Atoms ==
    LET alnum == LowerChars \cup DigitChars
    IN  <<{"t"}, {"1", "2", "3", "4", "5", "6"}, {"_"}, alnum, alnum, alnum, alnum, alnum, alnum>>

\* the atoms match the characters of s that follow position i
MatchAt(s, i) ==
    /\ i + Len(Atoms) <= Len(s)
    /\ \A k \in 1..Len(Atoms) : s[i + k] \in Atoms[k]

MatchString_NoEnd(s) == \E i \in 0..Len(s) : i = 0 /\ MatchAt(s, i)

\* regexp.MatchString("^t[1-6]_[a-z0-9]{6}$", s): a match may start anywhere, ^
\* holds at the beginning of the text only and $ at its end only
MatchString(s) ==
    \E i \in 0..Len(s) : i = 0 /\ MatchAt(s, i) /\ i + Len(Atoms) = Len(s)

\* Fullname.IsValid
IsValid(x) == MatchString(Text(x))

\* strings IsValid is called on: three that have the form, and each of them with
\* one character replaced, with a character before or after it, and cut short
ValidTexts ==
    {<<"t", "3", "_", "a", "b", "c", "1", "2", "3">>,
     <<"t", "1", "_", "z", "z", "z", "z", "z", "z">>,
     <<"t", "6", "_", "0", "0", "0", "0", "0", "0">>}
ProbeChars == {"t", "0", "1", "6", "7", "_", "a", "z", "A", "Z", "-", " ", "\n"}
Texts ==
    ValidTexts
    \cup {[b EXCEPT ![k] = ch] : b \in ValidTexts, k \in 1..9, ch \in ProbeChars}
    \cup {Append(b, ch) : b \in ValidTexts, ch \in ProbeChars}
    \cup {<<ch>> \o b : b \in ValidTexts, ch \in ProbeChars}
    \cup {SubSeq(b, 1, k) : b \in ValidTexts, k \in 0..8}
    \cup {SubSeq(b, k, 9) : b \in ValidTexts, k \in 2..9}

IdleValidity == [pc |-> "idle", s |-> <<>>, result |-> FALSE]

IdleValidPart == validity = IdleValidity

InitValid == validity \in {[IdleValidity EXCEPT !.s = t] : t \in Texts}

\* Fullname(s).IsValid()
IsValidCall ==
    /\ validity.pc = "idle"
    /\ validity' = [validity EXCEPT !.pc = "returned", !.result = MatchString(validity.s)]
    /\ UNCHANGED <<tokVars, limVars, walkVars, trackVars, fetchVars, pullVars, schedVars>>

NextValid == IsValidCall

----------------------------------------------------------------------------
(* The storage service and RecieveListings *)

\* a listing as the storage keeps it: the key of the document (Id), and the
\* listing's own kind, id and time of query
Stored(id, kind, metaId, queried) ==
    [Id |-> id, ContentType |-> kind, MetaId |-> metaId, DateQueried |-> queried]

\* conv.ToGrpc of the listing with FullId x, queried at time t: the key is the
\* FullId, ContentType + "_" + Id. The kinds of the model's listings (t3 and the
\* empty one) hold no "_", so the kind ends at the first one.
StoredOf(x, t) ==
    LET s == Text(x)
        cut == CHOOSE i \in 1..Len(s) : s[i] = "_" /\ \A j \in 1..(i - 1) : s[j] # "_"
    IN  Stored(s, SubSeq(s, 1, cut - 1), SubSeq(s, cut + 1, Len(s)), t)

\* conv.ToRedditContent followed by FullId: ContentType + "_" + Id
ToRedditContent(d) ==
    Content(Named(d.ContentType \o <<"_">> \o d.MetaId), d.DateQueried)

\* what the storage may hold: a post of subreddit "a" at two times of query, a
\* second post, and two listings with odd ids
StoredPool ==
    {StoredOf(Name("a", 1), 0), StoredOf(Name("a", 1), 7), StoredOf(Name("a", 2), 0),
     StoredOf(Name("", 1), 0), StoredOf(Name("", 2), 0)}

\* the two revisions of database.go
Revisions == {"grpc", "mongo"}

\* failAt: -1 never, 0 the call itself fails, k > 0 the k-th read of the stream fails
Storage(stream, failAt) == [stream |-> stream, failAt |-> failAt]

Streams == {<<>>} \cup {<<d>> : d \in StoredPool} \cup {<<d, e>> : d, e \in StoredPool}

Storages == {Storage(st, k) : st \in Streams, k \in -1..1}

IdlePull == [pc |-> "idle", rev |-> "grpc", pos |-> 0, recievedCount |-> 0,
             err |-> FALSE, before |-> <<>>]

IdlePullPart ==
    /\ storage = Storage(<<>>, -1)
    /\ pull = IdlePull
    /\ pulls = 0

\* RecieveListings(set) up to its loop: the call that opens the stream (gRPC) or
\* the query (MongoDB) may fail
PullEntry(rev, set) ==
    IF storage.failAt = 0
    THEN [IdlePull EXCEPT !.pc = "done", !.rev = rev, !.err = TRUE, !.before = set]
    ELSE [IdlePull EXCEPT !.pc = "recv", !.rev = rev, !.before = set]

\* gRPC revision: set[listing.FullId()] = listing
MergeRecieved(set, d) ==
    LET listing == ToRedditContent(d)
    IN  MapSet(set, FullId(listing), listing)

\* MongoDB revision: a document with an invalid _id is skipped, one whose _id is in
\* the set already is skipped, any other is stored under its _id
MergeDecoded(set, d) ==
    LET id == Named(d.Id)
    IN  IF ~IsValid(id) THEN set
        ELSE IF id \in DOMAIN set THEN set
        ELSE MapSet(set, id, ToRedditContent(d))

\* one pass through the loop of RecieveListings that receives a listing
Recv ==
    /\ pull.pc = "recv"
    /\ pull.pos < Len(storage.stream)
    /\ storage.failAt # pull.pos + 1
    /\ LET d == storage.stream[pull.pos + 1] IN
         trackedListings' = IF pull.rev = "grpc"
                            THEN MergeRecieved(trackedListings, d)
                            ELSE MergeDecoded(trackedListings, d)
    /\ pull' = [pull EXCEPT !.pos = pull.pos + 1,
                            !.recievedCount = pull.recievedCount + 1]
    /\ UNCHANGED <<storage, pulls, subreddits, track, ticks>>
    /\ UNCHANGED notPull

\* the stream is at its end: io.EOF, or data.Next returns false
RecvEOF ==
    /\ pull.pc = "recv"
    /\ pull.pos = Len(storage.stream)
    /\ storage.failAt # pull.pos + 1
    /\ pull' = [pull EXCEPT !.pc = "done"]
    /\ UNCHANGED <<storage, pulls, trackVars>>
    /\ UNCHANGED notPull

\* a read fails: the gRPC revision returns (0, error); in the MongoDB revision
\* data.Next returns false and the function returns nil
RecvFail ==
    /\ pull.pc = "recv"
    /\ storage.failAt = pull.pos + 1
    /\ pull' = IF pull.rev = "grpc"
               THEN [pull EXCEPT !.pc = "done", !.err = TRUE, !.recievedCount = 0]
               ELSE [pull EXCEPT !.pc = "done"]
    /\ UNCHANGED <<storage, pulls, trackVars>>
    /\ UNCHANGED notPull

\* sets a caller may pass: empty, or holding the post a1 as queried at time 5
PullSets == {<<>>, MapSet(<<>>, Name("a", 1), Content(Name("a", 1), 5))}

\* a caller calls RecieveListings(set)
PullCall ==
    /\ pull.pc \in {"idle", "returned"}
    /\ sched.pc = "off"
    /\ pulls < MaxPulls
    /\ pulls' = pulls + 1
    /\ \E rev \in Revisions : pull' = PullEntry(rev, trackedListings)
    /\ UNCHANGED <<storage, trackVars>>
    /\ UNCHANGED notPull

\* the caller has taken the result
PullReturn ==
    /\ pull.pc = "done"
    /\ sched.pc = "off"
    /\ pull' = [pull EXCEPT !.pc = "returned"]
    /\ UNCHANGED <<storage, pulls, trackVars>>
    /\ UNCHANGED notPull

\* CullListings(maxAge): the storage service deletes the listings that are more
\* than maxAge old, here those queried before `cut`; no caller of it is in src/.
\* (When the call fails nothing changes.)
CullListings ==
    /\ pull.pc \in {"idle", "returned"}
    /\ sched.pc = "off"
    /\ \E cut \in {5, 8} :
         LET Young(d) == d.DateQueried >= cut
         IN  /\ SelectSeq(storage.stream, Young) # storage.stream
             /\ storage' = [storage EXCEPT !.stream = SelectSeq(storage.stream, Young)]
    /\ UNCHANGED <<pull, pulls, trackVars>>
    /\ UNCHANGED notPull

InitPull ==
    /\ storage \in Storages
    /\ pull = IdlePull
    /\ pulls = 0
    /\ subreddits = [f \in Feeds |-> NoName]
    /\ trackedListings \in PullSets
    /\ track = IdleTrack
    /\ ticks = 0

NextPull == PullCall \/ Recv \/ RecvEOF \/ RecvFail \/ PullReturn \/ CullListings

----------------------------------------------------------------------------
(* scheduler.Start *)

Tickers == {"redditTicker", "newPostsTicker", "updatePostsTicker"}

\* nothing is held of the storage calls of earlier ticks
NoCalls == [saved |-> <<>>, updated |-> <<>>]

\* unsaved: the keys tracked in a tick whose SaveListings failed, which the storage
\* has not been given, until a later SaveListings succeeds
IdleSched == [pc |-> "off", failed |-> FALSE, saves |-> 0, updates |-> 0,
              unsaved |-> {}]

IdleSchedPart ==
    /\ sched = IdleSched
    /\ tickers = [t \in Tickers |-> [created |-> FALSE, pending |-> FALSE]]
    /\ fires = 0
    /\ dbCalls = NoCalls

\* pullFromDB: RecieveListings(reddit.GetTrackedPosts()), which works on the map
\* of the handler itself
PullFromDB ==
    /\ sched.pc = "boot"
    /\ sched' = [sched EXCEPT !.pc = "pullFromDB"]
    /\ pulls' = pulls + 1
    /\ \E rev \in Revisions : pull' = PullEntry(rev, trackedListings)
    /\ UNCHANGED <<storage, tickers, fires, dbCalls>>
    /\ UNCHANGED <<walkVars, trackVars, fetchVars>>
    /\ UNCHANGED notSched

AfterPull_Fatal(s, err) ==
    [s EXCEPT !.pc = IF err THEN "stopped" ELSE "select", !.failed = err]

\* Start after pullFromDB returned; err: RecieveListings returned an error, which
\* pullFromDB logged
AfterPull(s, err) == [s EXCEPT !.pc = "select", !.failed = err]

\* pullFromDB logs an error of RecieveListings and returns; Start creates its
\* three tickers and enters the loop
EnterLoop ==
    /\ sched.pc = "pullFromDB"
    /\ pull.pc = "done"
    /\ pull' = [pull EXCEPT !.pc = "returned"]
    /\ sched' = AfterPull(sched, pull.err)
    /\ tickers' = [t \in Tickers |-> [created |-> TRUE, pending |-> FALSE]]
    /\ UNCHANGED <<storage, pulls, fires, dbCalls>>
    /\ UNCHANGED <<walkVars, trackVars, fetchVars>>
    /\ UNCHANGED notSched

\* a period of ticker t is over: a tick goes into its channel, which holds one (a
\* tick that finds the channel full is dropped and changes nothing); the
\* platform's clock has moved on
Fire(t) ==
    /\ tickers[t].created
    /\ ~tickers[t].pending
    /\ sched.pc = "select"
    /\ fires < MaxFires
    /\ fires' = fires + 1
    /\ tickers' = [tickers EXCEPT ![t].pending = TRUE]
    /\ clock' = clock + 1
    /\ UNCHANGED <<sched, dbCalls, created, gone, walk, walks, changes>>
    /\ UNCHANGED <<pullVars, trackVars, fetchVars>>
    /\ UNCHANGED notSched

\* the loop after a handler returned; failed: the handler logged an error
AfterHandler(s, failed) ==
    [s EXCEPT !.pc = "select", !.failed = failed]

\* the loop takes a tick of ticker t and calls its handler
Taken_Go(s, h) == [s EXCEPT !.failed = FALSE, !.saves = 0, !.updates = 0]

\* a case of the select is taken: the handler is called in the loop's goroutine
Taken(s, h) == [s EXCEPT !.pc = h, !.failed = FALSE, !.saves = 0, !.updates = 0]

\* results of reddit.TokenRefresh(): an error or none
TokenRefreshErrs == BOOLEAN

\* case <-redditTicker.C: refreshToken(reddit, *redditTicker)
SelectRedditTicker ==
    /\ sched.pc = "select"
    /\ tickers["redditTicker"].pending
    /\ tickers' = [tickers EXCEPT !["redditTicker"].pending = FALSE]
    /\ sched' = Taken(sched, "refreshToken")
    /\ dbCalls' = NoCalls
    /\ UNCHANGED fires
    /\ UNCHANGED <<walkVars, trackVars, fetchVars, pullVars>>
    /\ UNCHANGED notSched

\* refreshToken: TokenRefresh, its error logged, and Reset on the copy of the ticker
RefreshTokenReturn ==
    /\ sched.pc = "refreshToken"
    /\ \E err \in TokenRefreshErrs : sched' = AfterHandler(sched, err)
    /\ UNCHANGED <<tickers, fires, dbCalls>>
    /\ UNCHANGED <<walkVars, trackVars, fetchVars, pullVars>>
    /\ UNCHANGED notSched

\* case <-newPostsTicker.C: fetchNewPosts up to the collecting loop of
\* TrackNewlyCreatedPosts
SelectNewPostsTicker ==
    /\ sched.pc = "select"
    /\ tickers["newPostsTicker"].pending
    /\ tickers' = [tickers EXCEPT !["newPostsTicker"].pending = FALSE]
    /\ sched' = Taken(sched, "fetchNewPosts")
    /\ dbCalls' = NoCalls
    /\ track' = TrackEntry
    /\ walk' = Spawned
    /\ UNCHANGED fires
    /\ UNCHANGED <<created, gone, clock, walks, changes, subreddits, trackedListings, ticks>>
    /\ UNCHANGED <<fetchVars, pullVars>>
    /\ UNCHANGED notSched

\* if count == 0 { return }
SaveNeeded(count) == count # 0

\* fetchNewPosts after TrackNewlyCreatedPosts returned count: nothing more when
\* count is 0, else SaveListings(reddit.GetTrackedPosts()) and its error logged
FetchNewPostsReturn ==
    /\ sched.pc = "fetchNewPosts"
    /\ track.pc = "returned"
    /\ IF ~SaveNeeded(track.postsTracked)
       THEN /\ sched' = AfterHandler(sched, FALSE)
            /\ UNCHANGED dbCalls
       ELSE \E err \in BOOLEAN :
            /\ sched' = AfterHandler([sched EXCEPT
                                          !.saves = sched.saves + 1,
                                          !.unsaved =
                                              IF err
                                              THEN sched.unsaved \cup
                                                   (DOMAIN trackedListings
                                                       \ DOMAIN track.before)
                                              ELSE {}], err)
            /\ dbCalls' = [dbCalls EXCEPT !.saved = trackedListings]
    /\ track' = IdleTrack
    /\ UNCHANGED <<tickers, fires>>
    /\ UNCHANGED <<subreddits, trackedListings, ticks>>
    /\ UNCHANGED <<walkVars, fetchVars, pullVars>>
    /\ UNCHANGED notSched

\* the orders in which a range over a map with the keys S may give them: Go
\* leaves the order open, so every order
RECURSIVE KeyOrders(_)
KeyOrders(S) ==
    IF S = {} THEN {<<>>}
    ELSE UNION {{<<x>> \o q : q \in KeyOrders(S \ {x})} : x \in S}

GetTrackedIDs_Valid == KeyOrders({x \in DOMAIN trackedListings : IsValid(x)})

\* GetTrackedIDs: the keys of r.trackedListings in the order the map is ranged
\* over; the set of the lists it may return
GetTrackedIDs == KeyOrders(DOMAIN trackedListings)

\* case <-updatePostsTicker.C: updateTrackedPosts up to the WaitN of FetchPosts
SelectUpdatePostsTicker ==
    /\ sched.pc = "select"
    /\ tickers["updatePostsTicker"].pending
    /\ tickers' = [tickers EXCEPT !["updatePostsTicker"].pending = FALSE]
    /\ sched' = Taken(sched, "updateTrackedPosts")
    /\ dbCalls' = NoCalls
    /\ \E IDs \in GetTrackedIDs : fetch' = FetchEntry(IDs)
    /\ batch' = <<>>
    /\ UNCHANGED <<fires, fetches>>
    /\ UNCHANGED <<walkVars, trackVars, pullVars>>
    /\ UNCHANGED notSched

\* updateTrackedPosts after FetchPosts returned: an error is returned to the loop;
\* else RecordNewData(*posts), whose error is returned to the loop; the loop logs it
UpdateTrackedPostsReturn ==
    /\ sched.pc = "updateTrackedPosts"
    /\ fetch.pc = "returned"
    /\ IF fetch.err
       THEN /\ sched' = AfterHandler(sched, TRUE)
            /\ UNCHANGED dbCalls
       ELSE \E err \in BOOLEAN :
            /\ sched' = AfterHandler([sched EXCEPT !.updates = sched.updates + 1], err)
            /\ dbCalls' = [dbCalls EXCEPT !.updated = fetch.contentMap]
    /\ fetch' = IdleFetch
    /\ batch' = <<>>
    /\ UNCHANGED <<tickers, fires, fetches>>
    /\ UNCHANGED <<walkVars, trackVars, pullVars>>
    /\ UNCHANGED notSched

\* what the storage may hold when the process starts
SchedStorages ==
    {Storage(<<>>, 0),
     Storage(<<StoredOf(Name("a", 1), 0)>>, -1),
     Storage(<<StoredOf(Name("", 2), 0), StoredOf(Name("a", 2), 0)>>, -1),
     Storage(<<StoredOf(Name("", 2), 0), StoredOf(Name("a", 2), 0)>>, 2)}

InitSched ==
    /\ sched = [IdleSched EXCEPT !.pc = "boot"]
    /\ tickers = [t \in Tickers |-> [created |-> FALSE, pending |-> FALSE]]
    /\ fires = 0
    /\ dbCalls = NoCalls
    /\ storage \in SchedStorages
    /\ pull = IdlePull
    /\ pulls = 0
    /\ created = [f \in Feeds |-> IF f = "a" THEN 2 ELSE 0]
    /\ gone = [f \in Feeds |-> {}]
    /\ clock = 0
    /\ walk = [f \in Feeds |-> IdleWalk]
    /\ walks = 0
    /\ changes = 0
    /\ IdleTrackPart
    /\ IdleFetchPart

NextSched ==
    \/ PullFromDB
    \/ Recv
    \/ RecvEOF
    \/ RecvFail
    \/ EnterLoop
    \/ \E t \in Tickers : Fire(t)
    \/ SelectRedditTicker
    \/ RefreshTokenReturn
    \/ SelectNewPostsTicker
    \/ FetchNewPostsReturn
    \/ SelectUpdatePostsTicker
    \/ UpdateTrackedPostsReturn
    \/ TrackReturn
    \/ FetchLaunch
    \/ FetchReturn
    \/ \E f \in Feeds : TaskBegin(f)
    \/ \E f \in Feeds : WalkPage(f)
    \/ \E f \in Feeds : TaskFinish(f)
    \/ \E f \in Feeds : Collect(f)
    \/ Post("a")
    \/ Delete("a")
    \/ \E c \in DOMAIN batch : BatchRun(c)
    \/ \E c \in DOMAIN batch : ReceiveOut(c)
    \/ \E c \in DOMAIN batch : ReceiveErr(c)

\* the walk part at rest
IdleWalkPart ==
    /\ created = [f \in Feeds |-> 0]
    /\ gone = [f \in Feeds |-> {}]
    /\ clock = 0
    /\ walk = [f \in Feeds |-> IdleWalk]
    /\ walks = 0
    /\ changes = 0

\* sizes of the listing of subreddit "a" when a direct caller walks it
ListingSizes == {0, 3, 120, 260}

InitWalk ==
    /\ created \in {[f \in Feeds |-> IF f = "a" THEN k ELSE 0] : k \in ListingSizes}
    /\ gone = [f \in Feeds |-> {}]
    /\ clock = 0
    /\ walk = [f \in Feeds |-> IdleWalk]
    /\ walks = 0
    /\ changes = 0

NextWalk ==
    \/ WalkCall("a") \/ WalkPage("a") \/ WalkReturn("a") \/ Post("a") \/ Delete("a")

InitTokenSpec == InitToken /\ IdleLimiter /\ IdleWalkPart /\ IdleTrackPart /\ IdleFetchPart /\ IdlePullPart /\ IdleSchedPart /\ IdleValidPart
SpecToken == InitTokenSpec /\ [][NextToken]_vars

InitLimiterSpec == IdleToken /\ IdleLimiter /\ IdleWalkPart /\ IdleTrackPart /\ IdleFetchPart /\ IdlePullPart /\ IdleSchedPart /\ IdleValidPart
SpecLimiter == InitLimiterSpec /\ [][NextLimiter]_vars

InitWalkSpec == IdleToken /\ IdleLimiter /\ InitWalk /\ IdleTrackPart /\ IdleFetchPart /\ IdlePullPart /\ IdleSchedPart /\ IdleValidPart
SpecWalk == InitWalkSpec /\ [][NextWalk]_vars

InitTrackSpec == IdleToken /\ IdleLimiter /\ InitTrack /\ IdleFetchPart /\ IdlePullPart /\ IdleSchedPart /\ IdleValidPart
SpecTrack == InitTrackSpec /\ [][NextTrack]_vars

InitFetchSpec == IdleToken /\ IdleLimiter /\ InitFetch /\ IdleTrackPart /\ IdlePullPart /\ IdleSchedPart /\ IdleValidPart
SpecFetch == InitFetchSpec /\ [][NextFetch]_vars

InitPullSpec == IdleToken /\ IdleLimiter /\ IdleWalkPart /\ InitPull /\ IdleFetchPart /\ IdleSchedPart /\ IdleValidPart
SpecPull == InitPullSpec /\ [][NextPull]_vars

InitSchedSpec == IdleToken /\ IdleLimiter /\ InitSched /\ IdleValidPart
SpecSched == InitSchedSpec /\ [][NextSched]_vars

InitValidSpec == IdleToken /\ IdleLimiter /\ IdleWalkPart /\ IdleTrackPart /\ IdleFetchPart /\ IdlePullPart /\ IdleSchedPart /\ InitValid
SpecValid == InitValidSpec /\ [][NextValid]_vars

\* C4: getNewestPosts(feed, n, lastSeen = X) returns neither the post whose Fullname
\* is X nor any post older than X.
C4_NothingAtOrBeyondMarker ==
    \A f \in Feeds :
        (walk[f].pc = "done" /\ walk[f].last # NoName) =>
            \A i \in 1..Len(walk[f].results) :
                /\ FullId(walk[f].results[i]) # walk[f].last
                /\ ~Older(FullId(walk[f].results[i]), walk[f].last)

\* C3: all outbound calls draw from one bucket, so the number of calls fired never
\* exceeds the burst plus the permits refilled so far.
C3_CallsWithinSharedBudget == fired <= burst + refilled

----------------------------------------------------------------------------
(* Claims about the token an outbound call carries *)

\* C1: when every credential exchange has succeeded and the leniency is below 1,
\* the token record attached to an outbound call is valid at the moment the call
\* fires: now - obtained_at < lifetime.
C1_CallTokenValid ==
    (call.pc = "fired" /\ ~exchangeFailed /\ ClampedLeniency(leniency) < 10000)
        => call.valid

\* C2: once a refresh cycle iteration has replaced the record, an outbound call
\* started afterwards on the handler NewApi returned carries the new record.
C2_CallCarriesRefreshedRecord ==
    (call.pc # "idle" /\ call.afterRefresh) => call.newest

----------------------------------------------------------------------------
(* Claims about the discovery tick *)

\* the Fullnames of a slice of RedditContent
Ids(result) == [i \in 1..Len(result) |-> FullId(result[i])]

\* the posts of listing L that are newer than the cursor c
Ahead(L, c) ==
    LET IsNewer(x) == x.n > c.n
    IN  SelectSeq(L, IsNewer)

\* C5: for a feed whose cursor is set, a walk that finds nothing ahead of the
\* cursor returns nothing (so that nothing is tracked) and leaves the cursor, and
\* one that finds k posts ahead of it returns exactly those, newest first, and
\* moves the cursor to the newest of them.
C5_WalkReturnsWhatIsAhead ==
    \A f \in Feeds :
        (walk[f].pc = "send" /\ ~walk[f].err /\ walk[f].last # NoName) =>
            LET ahead == Ahead(walk[f].snap, walk[f].last) IN
            /\ Ids(walk[f].results) = ahead
            /\ subreddits[f] = IF ahead = <<>> THEN walk[f].last ELSE ahead[1]

\* C6: a task whose walk returned without error leaves its feed's cursor at the
\* Fullname of the first post returned, or where it was when nothing was
\* returned, and leaves the cursor of every other feed alone.
C6_CursorAfterTask ==
    [][\A f \in Feeds :
          (walk[f].pc = "done" /\ walk'[f].pc = "send" /\ ~walk[f].err) =>
              /\ subreddits'[f] = IF Len(walk[f].results) > 0
                                  THEN FullId(walk[f].results[1])
                                  ELSE subreddits[f]
              /\ \A g \in Feeds \ {f} : subreddits'[g] = subreddits[g]]_vars

C6_Witness ==
    \E f \in Feeds :
        /\ walk[f].pc = "send"
        /\ ~walk[f].err
        /\ Len(walk[f].results) > 1
        /\ subreddits[f] = FullId(walk[f].results[1])
        /\ \E g \in Feeds \ {f} : subreddits[g] # NoName

\* C7: for a feed whose cursor was empty when the tick started, receiving its
\* walk's result adds nothing to the Tracked Set and counts nothing.
C7_FirstWalkTracksNothing ==
    [][\A f \in Feeds :
          (walk[f].pc = "send" /\ walk'[f].pc = "idle"
              /\ track.startLast[f] = NoName) =>
              /\ trackedListings' = trackedListings
              /\ track'.postsTracked = track.postsTracked]_vars

C7_Witness ==
    \E f \in Feeds :
        /\ track.pc = "collect"
        /\ track.startLast[f] = NoName
        /\ walk[f].pc = "idle"
        /\ subreddits[f] # NoName
        /\ trackedListings = <<>>

----------------------------------------------------------------------------
(* Claims about FetchPosts *)

\* the concatenation of the first c sequences of ss
RECURSIVE Concat(_, _)
Concat(ss, c) == IF c = 0 THEN <<>> ELSE Concat(ss, c - 1) \o ss[c]

Range(seq) == {seq[k] : k \in DOMAIN seq}

\* C8: for an id list of length n, FetchPosts makes ceil(n/100) lookup calls over
\* consecutive chunks that cover the list in order; every chunk has 1 to 100 ids
\* and only the last may have fewer than 100.
C8_ChunksPartitionTheList ==
    fetch.pc \in {"collect", "returned"} =>
        LET n == Len(fetch.IDs)
            calls == Len(fetch.batchIDs)
        IN  /\ limit * (calls - 1) < n \/ (n = 0 /\ calls = 0)
            /\ n <= limit * calls
            /\ Concat(fetch.batchIDs, calls) = fetch.IDs
            /\ \A c \in 1..calls :
                 /\ Len(fetch.batchIDs[c]) \in 1..limit
                 /\ c < calls => Len(fetch.batchIDs[c]) = limit
            /\ DOMAIN batch = 1..calls
            /\ fetch.pc = "returned" => fetch.lookups = calls

\* C9: the keys of the map FetchPosts returns are among the ids it was given,
\* whatever the lookup answers contain.
C9_KeysAmongRequested ==
    fetch.pc = "returned" => DOMAIN fetch.contentMap \subseteq Range(fetch.IDs)

\* C10: whichever lookup calls fail, FetchPosts does not abort: no chunk ends the
\* process, and FetchPosts returns a nil error and a map that holds exactly the
\* items of the chunks that succeeded. A chunk succeeded when its call was
\* answered and the body was decoded without an error.
C10_PartialResult ==
    LET succeeded == {c \in DOMAIN batch : batch[c].ok /\ ~batch[c].malformed}
    IN  /\ \A c \in DOMAIN batch : batch[c].pc # "panic"
        /\ fetch.pc = "returned" =>
              /\ ~fetch.err
              /\ DOMAIN fetch.contentMap =
                   UNION {Range(batch[c].content) : c \in succeeded}
              /\ \A c \in succeeded :
                   \A x \in Range(batch[c].content) :
                       fetch.contentMap[x] = Content(x, batch[c].timeSent)

----------------------------------------------------------------------------
(* Claims about the merge from storage *)

\* C15: RecieveListings is add-if-absent: every Fullname that was in the set before
\* the call has the same entry during and after the call, whatever the storage
\* streams for it.
C15_PullKeepsEntries ==
    pull.pc # "idle" =>
        \A x \in DOMAIN pull.before :
            x \in DOMAIN trackedListings /\ trackedListings[x] = pull.before[x]

----------------------------------------------------------------------------
(* Claims about the scheduler *)

HandlerPcs == {"refreshToken", "fetchNewPosts", "updateTrackedPosts"}

\* C11: the loop has no terminal state: no step of a handler ends the process,
\* and when the handler of a tick returns, having logged an error or not, the
\* loop is back at its select with all three tickers running, and no step stops
\* a ticker.
C11_LoopGoesOn ==
    [][/\ sched.pc \in HandlerPcs => ~Exited'
       /\ (sched.pc \in HandlerPcs /\ sched'.pc # sched.pc) =>
            /\ sched'.pc = "select"
            /\ \A t \in Tickers : tickers'[t].created
       /\ \A t \in Tickers : tickers[t].created => tickers'[t].created]_vars

\* C12: a discovery tick calls SaveListings once when it tracked at least one new
\* item, that is when the Tracked Set gained a key in the tick, and not at all
\* otherwise; its argument is the whole Tracked Set, which holds every item
\* merged in the tick.
C12_SaveOncePerTrackingTick ==
    [][(sched.pc = "fetchNewPosts" /\ sched'.pc # "fetchNewPosts") =>
          IF DOMAIN trackedListings # DOMAIN track.before
          THEN /\ sched'.saves = 1
               /\ dbCalls'.saved = trackedListings
               /\ \A x \in DOMAIN trackedListings :
                    (x \notin DOMAIN track.before \/ track.before[x] # trackedListings[x])
                        => (x \in DOMAIN dbCalls'.saved
                            /\ dbCalls'.saved[x] = trackedListings[x])
          ELSE /\ sched'.saves = 0
               /\ dbCalls'.saved = <<>>
               /\ trackedListings = track.before]_vars

\* C13: a refresh tick calls FetchPosts with the keys of the Tracked Set, each
\* once, and hands the map FetchPosts returns to RecordNewData as it is;
\* RecordNewData is not called when FetchPosts returns an error.
C13_RefreshTickFetchesTrackedIds ==
    [][/\ (sched.pc = "select" /\ sched'.pc = "updateTrackedPosts") =>
            /\ Range(fetch'.IDs) = DOMAIN trackedListings
            /\ Len(fetch'.IDs) = Cardinality(DOMAIN trackedListings)
       /\ (sched.pc = "updateTrackedPosts" /\ sched'.pc # "updateTrackedPosts") =>
            IF fetch.err
            THEN sched'.updates = 0 /\ dbCalls'.updated = <<>>
            ELSE sched'.updates = 1 /\ dbCalls'.updated = fetch.contentMap]_vars

C13_Witness ==
    /\ sched.pc = "select"
    /\ sched.updates = 1
    /\ dbCalls.updated # <<>>
    /\ \E x \in DOMAIN trackedListings : ~IsValid(x)

\* C14: after a refresh tick the Tracked Set holds, for every Fullname of the
\* fetched map, the fetched snapshot.
C14_TrackedSetHoldsSnapshots ==
    (sched.pc = "select" /\ sched.updates = 1) =>
        \A x \in DOMAIN dbCalls.updated :
            x \in DOMAIN trackedListings /\ trackedListings[x] = dbCalls.updated[x]

\* C16: every key of the Tracked Set passes Fullname.IsValid.
C16_TrackedKeysValid == \A x \in DOMAIN trackedListings : IsValid(x)

\* C20: Start pulls from the storage once, before any ticker exists; after the
\* pull, failed or not, the loop is entered with its three tickers.
C20_OnePullBeforeLoop ==
    /\ sched.pc = "boot" => pulls = 0 /\ \A t \in Tickers : ~tickers[t].created
    /\ sched.pc = "pullFromDB" => pulls = 1 /\ \A t \in Tickers : ~tickers[t].created
    /\ sched.pc \notin {"off", "boot", "pullFromDB"} =>
         /\ pulls = 1
         /\ pull.pc = "returned"
         /\ sched.pc \in {"select"} \cup HandlerPcs
         /\ \A t \in Tickers : tickers[t].created

C20_Witness ==
    /\ sched.pc = "select"
    /\ pull.err
    /\ sched.failed
    /\ fires = 0

\* C21: a storage push that failed is not repeated within its tick, and the next
\* tick of the same ticker pushes again: a discovery tick that follows a failed
\* SaveListings calls SaveListings with the items whose save failed, whether it
\* tracked a new item or not, and a refresh tick calls RecordNewData whenever
\* FetchPosts returned its map.
C21_NextTickPushesAgain ==
    [][/\ (sched.pc = "fetchNewPosts" /\ sched'.pc # "fetchNewPosts") =>
            /\ sched'.saves <= 1
            /\ sched.unsaved # {} =>
                  (sched'.saves = 1 /\ sched.unsaved \subseteq DOMAIN dbCalls'.saved)
       /\ (sched.pc = "updateTrackedPosts" /\ sched'.pc # "updateTrackedPosts") =>
            /\ sched'.updates <= 1
            /\ ~fetch.err => sched'.updates = 1]_vars

----------------------------------------------------------------------------
(* Claims about the token at startup and in the refresh loop *)

\* C17: at startup a token record loaded from the cache is used if and only if
\* now - obtained_at < lifetime; otherwise a credential exchange is made.
C17_CacheUsedIffValid ==
    [][(napc = "resolve" /\ napc' # "resolve" /\ cacheAccessToken
        /\ cacheFile.state = "token") =>
          ((exchanges' = exchanges) <=> TokenValid(cacheFile.token, now))]_vars

\* C18: at startup the credential exchange is made exactly when caching is off,
\* the cache is absent or unreadable, or the loaded record is invalid; a failed
\* exchange ends the process before the refresh task starts and before any
\* outbound call; a failed write of the cache still returns the handler with the
\* acquired token.
C18_StartupResolution ==
    [][/\ (napc = "resolve" /\ napc' # "resolve") =>
            /\ (exchanges' = exchanges + 1) <=>
                  \/ ~cacheAccessToken
                  \/ cacheFile.state # "token"
                  \/ ~TokenValid(cacheFile.token, now)
            /\ exchanges' = exchanges + 1 =>
                  \/ napc' = "fatal"
                  \/ napc' = "go" /\ client' = Token(exchanges', client'.ExpireLength, now)
       /\ napc' = "fatal" => (cycle'.pc = "off" /\ call'.pc = "idle" /\ handler' = NoToken)
       /\ (napc = "return" /\ napc' = "done") => (handler' = client /\ client # NoToken)]_vars

\* C19: a failure in an iteration of the refresh loop, be it of the exchange or of
\* the write of the cache, is followed by the next iteration; after a failed
\* exchange the token record, and the cache, are what they were.
C19_RefreshLoopGoesOn ==
    [][/\ (cycle.pc = "sleep" /\ cycle'.pc \notin {"sleep", "assign"}) =>
            /\ cycle'.pc = "loop"
            /\ napc' = napc
            /\ cycle'.last = "exchange"
            /\ client' = client /\ handler' = handler /\ cacheFile' = cacheFile
       /\ (cycle.pc = "assign" /\ cycle'.pc # "assign") =>
            /\ cycle'.pc = "loop"
            /\ napc' = napc
            /\ cycle'.last \in {"ok", "cache"}
            /\ client'.InitializationTime = now]_vars

C19_Witness ==
    /\ cycle.pc = "sleep"
    /\ cycle.last = "exchange"
    /\ refreshed
    /\ exchangeFailed

\* C22: the token record is never read partly replaced: the copy of the handler
\* that NewApi returns, taken while an iteration of the refresh loop assigns the
\* record, holds the whole old record or the whole new one, and an outbound call
\* carries the record of the handler it was called on.
C22_RecordReadWhole ==
    [][/\ (napc = "return" /\ napc' = "done" /\ cycle.pc = "assign") =>
            handler' \in {cycle.old, cycle.token}
       /\ (call.pc = "idle" /\ call'.pc = "wait") => call'.token = handler]_vars

\* C24: an iteration of the refresh loop sleeps min(regular_delay, obtained_at +
\* lifetime - now) seconds (in whole seconds, and not at all when that is
\* negative), regular_delay being lifetime * leniency; and when the leniency is
\* below 1 and no exchange has failed, the exchange that follows the sleep is made
\* strictly before the expiry time obtained_at + lifetime of the record held.
C24_RefreshBeforeExpiry ==
    [][/\ (cycle.pc = "loop" /\ cycle'.pc = "sleep") =>
            LET remaining == client.InitializationTime + client.ExpireLength - now
                least == Min(cycle.regular, remaining * 10000)
            IN  /\ cycle.regular = client.ExpireLength * ClampedLeniency(leniency)
                /\ cycle'.wakeAt - now = IF least < 0 THEN 0 ELSE least \div 10000
       /\ (cycle.pc = "sleep" /\ cycle'.pc = "assign" /\ ~exchangeFailed
              /\ ClampedLeniency(leniency) < 10000) =>
            now < client.InitializationTime + client.ExpireLength]_vars

\* C25: whatever the configured leniency, the sleep of an iteration that starts on
\* a token acquired just now is longer than zero seconds.
C25_SleepPositiveOnFreshToken ==
    [][(cycle.pc = "loop" /\ cycle'.pc = "sleep" /\ client.InitializationTime = now) =>
          cycle'.wakeAt > now]_vars

\* C26: the iteration that follows one whose exchange failed sleeps longer than
\* zero seconds before it makes the next exchange, also when the record, which
\* was not replaced, is at or past its expiry time.
C26_WaitAfterFailedExchange ==
    [][(cycle.pc = "loop" /\ cycle'.pc = "sleep" /\ cycle.last = "exchange") =>
          cycle'.wakeAt > now]_vars

----------------------------------------------------------------------------
(* Claims about Fullname.IsValid *)

\* C23: IsValid is true of a string exactly when the string is a tag t1..t6, an
\* underscore and six characters that are lowercase letters or digits, with
\* nothing before or after.
C23_ValidIffWellFormed ==
    validity.pc = "returned" =>
        LET s == validity.s
            wellFormed ==
                /\ Len(s) = 9
                /\ SubSeq(s, 1, 1) = <<"t">>
                /\ s[2] \in {"1", "2", "3", "4", "5", "6"}
                /\ s[3] = "_"
                /\ \A k \in 4..9 : s[k] \in LowerChars \/ s[k] \in DigitChars
        IN  validity.result <=> wellFormed

C23_Witness ==
    /\ validity.pc = "returned"
    /\ ~validity.result
    /\ Len(validity.s) = 10
    /\ validity.s[10] = "\n"
    /\ MatchAt(validity.s, 0)

----------------------------------------------------------------------------
(* Claims about the permits of FetchPosts *)

\* C27: FetchPosts starts its chunk tasks only after WaitN has taken ceil(n/100)
\* permits from the limiter in one step, for every number n of ids, also when
\* ceil(n/100) is above the burst of the limiter.
C27_PermitsTakenBeforeLaunch ==
    [][(inv.pc = "reserve" /\ inv'.pc = "calls") =>
          /\ inv.lim >= inv.reserve
          /\ inv'.lim = inv.lim - inv.reserve]_vars

----------------------------------------------------------------------------
(* Claims about the pages of getNewestPosts *)

\* C28: getNewestPosts(feed, n, last) with n > 0 makes its page calls one after the
\* other, at most ceil(n/100) of them and exactly that many when it meets no
\* marker, empty page or error; call i asks for min(n - 100*i, 100) items, the
\* first call carries no cursor and a later one the cursor of the page before; the
\* result has at most n items. With n <= 0 it returns an error and makes no call.
C28_PagesOfTheWalk ==
    [][\A f \in Feeds :
          LET w == walk[f]
              v == walk'[f]
              i == Len(w.reqs)
          IN  /\ (w.pc = "idle" /\ v.pc # "idle" /\ v.num <= 0) =>
                    (v.pc = "done" /\ v.err /\ v.reqs = <<>> /\ v.results = <<>>)
              /\ (w.pc = "idle" /\ v.pc # "idle" /\ v.num > 0) =>
                    (v.pc = "loop" /\ v.reqs = <<>>)
              /\ (w.pc = "loop" /\ v # w) =>
                    /\ i < CeilDiv(w.num, 100)
                    /\ Len(v.reqs) = i + 1
                    /\ SubSeq(v.reqs, 1, i) = w.reqs
                    /\ v.reqs[i + 1].limit = Min(w.num - 100 * i, 100)
                    /\ v.reqs[i + 1].after = IF i = 0 THEN NoName ELSE w.after
                    /\ Len(v.results) <= w.num
                    /\ (v.pc = "done" /\ ~v.err /\ ~v.reachedLast
                          /\ v.currentCall = i + 1) =>
                          Len(v.reqs) = CeilDiv(w.num, 100)]_vars

C28_Witness ==
    /\ walk["a"].pc = "done"
    /\ ~walk["a"].err
    /\ walk["a"].num = 250
    /\ Len(walk["a"].reqs) = 3
    /\ walk["a"].reqs[3].limit = 50
    /\ walk["a"].reqs[3].after # NoName
    /\ Len(walk["a"].results) = 250

\* C29: when a page comes back with fewer items than were asked for and an empty
\* cursor (the feed is exhausted), getNewestPosts makes no further page call, and
\* the sequence it returns holds no Fullname twice.
C29_StopsAtExhaustion ==
    [][\A f \in Feeds :
          LET w == walk[f]
              v == walk'[f]
              req == v.reqs[Len(v.reqs)]
              page == PageResponse(f, req.after, req.limit)
          IN  (w.pc = "loop" /\ v # w /\ ~v.err
                 /\ Len(page.children) < req.limit /\ page.after = NoName) =>
                  /\ v.pc = "done"
                  /\ \A j, k \in 1..Len(v.results) :
                        FullId(v.results[j]) = FullId(v.results[k]) => j = k]_vars

----------------------------------------------------------------------------
(* Claims about a failed walk in the discovery tick *)

\* C30: when a page call of a feed's walk fails (a body that cannot be decoded
\* included), the walk returns an error and no items; the feed's cursor and the Tracked Set are not changed for that feed in
\* this tick, the walk is not made again within the tick, and the results of the
\* other feeds are merged all the same.
C30_FailedWalkChangesNothing ==
    [][\A f \in Feeds :
          LET w == walk[f]
              v == walk'[f]
          IN  /\ (w.pc = "loop" /\ (v.err \/ v.pc = "panic")) =>
                    (v.pc = "done" /\ v.err /\ v.results = <<>>)
              /\ (w.err /\ w.pc = "done" /\ v # w) =>
                    /\ v.pc = "send" /\ v.results = <<>> /\ ~v.trackPosts
                    /\ subreddits' = subreddits
                    /\ trackedListings' = trackedListings
              /\ (w.err /\ w.pc = "send" /\ v # w) =>
                    /\ v.pc = "idle"
                    /\ subreddits' = subreddits
                    /\ trackedListings' = trackedListings
                    /\ track' = [track EXCEPT !.i = track.i + 1]
              /\ (w.err /\ v # w) => Len(v.reqs) <= Len(w.reqs)
              /\ (~w.err /\ w.pc = "send" /\ v # w /\ w.trackPosts) =>
                    \A k \in 1..Len(w.results) :
                        /\ FullId(w.results[k]) \in DOMAIN trackedListings'
                        /\ trackedListings'[FullId(w.results[k])] = w.results[k]]_vars

----------------------------------------------------------------------------
(* Claims about the tasks of FetchPosts *)

\* C31: every chunk task of FetchPosts sends one message, a result or an error
\* (none ends without sending), and the orchestrator receives ceil(n/100)
\* messages: what it has received is the
\* number of tasks that have sent and ended; when every call has returned, a
\* task is waiting at its send with the orchestrator ready to receive, or all
\* have been received; and when FetchPosts has returned no task is left at a send.
C31_OneMessagePerChunk ==
    fetch.pc \in {"collect", "returned"} =>
        LET ended == {c \in DOMAIN batch : batch[c].pc = "end"}
            sending == {c \in DOMAIN batch : batch[c].pc \in {"sendOut", "sendErr"}}
            calling == {c \in DOMAIN batch : batch[c].pc = "go"}
        IN  /\ DOMAIN batch = 1..CeilDiv(Len(fetch.IDs), 100)
            /\ fetch.totalCalls = CeilDiv(Len(fetch.IDs), 100)
            /\ fetch.i = Cardinality(ended)
            /\ (fetch.pc = "collect" /\ calling = {}) =>
                  \/ sending # {} /\ fetch.i < fetch.totalCalls
                  \/ sending = {} /\ fetch.i = fetch.totalCalls
            /\ fetch.pc = "returned" => (ended = DOMAIN batch /\ fetch.i = fetch.totalCalls)

\* C32: a lookup chunk whose body is malformed is that chunk's failure: it goes the
\* error way and gives no items, and is never received as a successful chunk
\* with zero items.
C32_MalformedBodyIsFailure ==
    \A c \in DOMAIN batch :
        batch[c].malformed => (~batch[c].ok /\ batch[c].pc \in {"sendErr", "end"})

\* C33: an id asked of FetchPosts that no chunk answered makes a warning only:
\* FetchPosts returns the map of what was found and no error, and the refresh
\* tick hands that map to RecordNewData.
C33_MissingIdOnlyWarns ==
    [][/\ (fetch.pc = "collect" /\ fetch'.pc = "returned") =>
            (~fetch'.err /\ fetch'.contentMap = fetch.contentMap)
       /\ (/\ sched.pc = "updateTrackedPosts"
           /\ sched'.pc # "updateTrackedPosts"
           /\ \E k \in DOMAIN fetch.IDs : fetch.IDs[k] \notin DOMAIN fetch.contentMap) =>
            (sched'.updates = 1 /\ dbCalls'.updated = fetch.contentMap)]_vars

C33_Witness ==
    /\ sched.pc = "updateTrackedPosts"
    /\ fetch.pc = "returned"
    /\ ~fetch.err
    /\ fetch.contentMap # <<>>
    /\ \E k \in DOMAIN fetch.IDs : fetch.IDs[k] \notin DOMAIN fetch.contentMap

\* C34: one handler of the scheduler runs at a time: a handler starts only from
\* the select, with no discovery and no refresh of posts under way, and a
\* discovery or a lookup is under way only inside its own handler.
C34_OneHandlerAtATime ==
    [][/\ (sched'.pc \in HandlerPcs /\ sched'.pc # sched.pc) =>
            /\ sched.pc = "select"
            /\ track.pc = "idle"
            /\ fetch.pc = "idle"
            /\ \A f \in Feeds : walk[f].pc = "idle"
       /\ track'.pc # "idle" => sched'.pc = "fetchNewPosts"
       /\ (\E f \in Feeds : walk'[f].pc # "idle") => sched'.pc = "fetchNewPosts"
       /\ fetch'.pc # "idle" => sched'.pc = "updateTrackedPosts"]_vars

C34_Witness ==
    /\ sched.pc = "fetchNewPosts"
    /\ track.pc = "collect"
    /\ tickers["updatePostsTicker"].pending
    /\ tickers["redditTicker"].pending

\* C35: the Tracked Set is never written while another task uses it: a step of a
\* walk task leaves it as it was, it changes only when the collecting loop takes
\* a result (or in the startup pull, with no task started), and the handler goes
\* on to the storage push only when every task of the tick has reported.
C35_TrackedSetHasOneWriter ==
    [][/\ (\E f \in Feeds : walk'[f] # walk[f] /\ walk'[f].pc # "idle") =>
            trackedListings' = trackedListings
       /\ trackedListings' # trackedListings =>
            \/ \E f \in Feeds :
                    /\ track.pc = "collect"
                    /\ walk[f].pc = "send"
                    /\ walk' = [walk EXCEPT ![f] = IdleWalk]
            \/ /\ pull.pc # "idle"
               /\ track.pc = "idle"
               /\ \A f \in Feeds : walk[f].pc = "idle"
       /\ (sched.pc = "fetchNewPosts" /\ sched'.pc # "fetchNewPosts") =>
            /\ track.i = Cardinality(Feeds)
            /\ \A f \in Feeds : walk[f].pc = "idle"
            /\ dbCalls'.saved \in {<<>>, trackedListings}]_vars

C35_Witness ==
    /\ track.pc = "collect"
    /\ track.i = 1
    /\ track.postsTracked > 0
    /\ trackedListings # track.before
    /\ \E f \in Feeds : walk[f].pc \in {"spawned", "loop", "done"}

\* C36: when the collecting loop takes the result of a walk without error of a
\* feed whose cursor was set, every post that was in the feed ahead of that
\* cursor when it was walked is a key of the Tracked Set, however many there are.
C36_DiscoveryComplete ==
    [][\A f \in Feeds :
          (/\ walk[f].pc = "send" /\ walk'[f].pc = "idle"
           /\ ~walk[f].err /\ walk[f].last # NoName) =>
              LET ahead == Ahead(walk[f].snap, walk[f].last)
              IN  \A k \in DOMAIN ahead : ahead[k] \in DOMAIN trackedListings']_vars

\* C37: the keys of the Tracked Set only grow: no step of the startup pull, of a
\* discovery tick, of a refresh tick or of a token refresh takes a key away.
C37_KeysOnlyGrow ==
    [][\A x \in DOMAIN trackedListings : x \in DOMAIN trackedListings']_vars

C37_Witness ==
    /\ sched.pc = "select"
    /\ sched.updates = 1
    /\ Cardinality(DOMAIN trackedListings) >= 2
    /\ \E x \in DOMAIN trackedListings : x \notin DOMAIN dbCalls.updated
    /\ \E x \in DOMAIN trackedListings : x \notin DOMAIN dbCalls.saved
    /\ tickers["redditTicker"].created

\* C38: the count TrackNewlyCreatedPosts returns is the number of Fullnames that
\* are keys of the Tracked Set after the call and were not keys before it.
C38_CountIsNewKeys ==
    track.pc = "returned" =>
        track.postsTracked = Cardinality(DOMAIN trackedListings \ DOMAIN track.before)

\* C39: RecordNewData is only called with items that the storage has been given:
\* every Fullname of the pushed map is a key that the startup pull loaded or
\* that was in a SaveListings call that returned no error.
C39_UpdateOnlyWhatStorageHas ==
    [][(sched.pc = "updateTrackedPosts" /\ sched'.updates = sched.updates + 1) =>
          \A x \in DOMAIN dbCalls'.updated :
              x \in DOMAIN trackedListings /\ x \notin sched.unsaved]_vars

====
